---------------------------- MODULE Spec2Model ----------------------------
(***************************************************************************)
(* Touch gesture recognition of the tablet KVM frontend:                   *)
(*   MouseHandler   (src/js/input/mouse.js)                                *)
(*   ZoomController (src/unnamed/part_006, the two-finger-pan variant)     *)
(*   ScrollWidget   (src/js/ui/mouse-panel.js)                             *)
(*                                                                         *)
(* Both objects listen on the same stream container.  ZoomController       *)
(* listens in the capture phase, so for every touch event its handler runs *)
(* first; MouseHandler's handler runs afterwards unless the event's        *)
(* propagation was stopped.  One action of this module is one DOM event    *)
(* (both handlers) or one timer callback.                                  *)
(*                                                                         *)
(* Time.  `now' is Date.now().  A timer variable holds the deadline of the *)
(* pending timeout, or NoTimer.  Timer callbacks run at their deadline:    *)
(* the clock does not pass a pending deadline and no touch event is        *)
(* handled while a callback is due.  The handlers only read differences    *)
(* between Date.now() and stored times, so the clock is kept relative:     *)
(* when time passes, `now' keeps its value and every stored timestamp and  *)
(* deadline moves into the past instead, down to a value that is older     *)
(* than the window it is compared with.  The value 0 (never set) is kept.  *)
(* Touch events arrive at multiples of TimeStep, at most one per instant;  *)
(* timer callbacks run at their deadlines, on or off that grid.            *)
(*                                                                         *)
(* Numbers.  JavaScript doubles are modelled by exact rationals <<n, d>>   *)
(* (d > 0, lowest terms); touch coordinates are integers.                  *)
(*                                                                         *)
(* Specifications.  SpecTap drives MouseHandler with single-finger touch   *)
(* sequences; Spec drives both objects with one- and two-finger sequences; *)
(* SpecZoom drives ZoomController alone, with its public methods.  The     *)
(* counters gestures, zoomCalls and contacts bound the exploration, and    *)
(* the record obs observes the touches made and the frames handed to the   *)
(* senders of KvmdWebSocket (src/js/websocket.js), which pass them to the  *)
(* socket while it is open.  SpecSuspend has MouseHandler disabled and     *)
(* enabled during single-finger gestures; SpecChannel has the socket close *)
(* and reopen during them.  In the other specifications it stays open.     *)
(* SpecScroll drives ScrollWidget (src/js/ui/mouse-panel.js) alone, with   *)
(* touches on its strip, its timeouts and its settings; the other          *)
(* specifications leave the widget untouched.                              *)
(***************************************************************************)
EXTENDS Integers, Sequences, FiniteSets, TLC

-----------------------------------------------------------------------------
(* Program constants *)

TAP_MAX_DURATION == 200
TAP_MAX_DISTANCE == 10
DOUBLE_TAP_WINDOW == 300
LONG_PRESS_DELAY == 500
DRAG_HOLD_DELAY == 200
PULSE_DELAY == 50
SCROLL_DEAD_ZONE == 5
PINCH_THRESHOLD == 15
PAN_THRESHOLD == 10
\* Touches with this many fingers or more are ignored by ZoomController
IGNORED_FINGERS == 3
MIN_SCALE == 1
MAX_SCALE == 4
DefaultScrollSensitivity == 2
DefaultSensitivity == 1
AbsMin == -32768
AbsMax == 32767
RelLimit == 127

NoTimer == 0
NoPos == [x |-> -1, y |-> -1]

-----------------------------------------------------------------------------
(* Bounds of the model *)

\* Number of zoom-button presses (zoomToNative / resetZoom / toggle) explored.
MaxZoomCalls == 1
\* Number of contact sequences explored where both recognizers are studied.
MaxContacts == 3
\* Number of two-finger touch-starts explored where ZoomController is
\* studied alone, and where both recognizers are studied.
MaxGestures == 2
MaxJointGestures == 1

\* Touch events are sampled every TimeStep ms.
TimeStep == PULSE_DELAY
\* Date.now(): larger than every delay, so that the initial timestamps (0)
\* are older than every window, as they are in a browser.
now == 2 * LONG_PRESS_DELAY
\* A stored timestamp after dt has passed; it is only ever compared with
\* now - w, so it is not aged beyond that.  And a deadline after dt has passed.
Aged(t, dt, w) == IF t = 0 THEN 0 ELSE IF t - dt < now - w THEN now - w ELSE t - dt
Nearer(t, dt) == IF t = NoTimer THEN NoTimer ELSE t - dt

\* Untransformed size of the stream container (offsetWidth, offsetHeight);
\* its untransformed top-left corner is the origin of the screen coordinates.
ViewW == 800
ViewH == 600

-----------------------------------------------------------------------------
(* Rational arithmetic *)

Abs(i) == IF i < 0 THEN -i ELSE i

RECURSIVE GCD(_, _)
GCD(a, b) == IF b = 0 THEN a ELSE GCD(b, a % b)

Norm(n, d) ==
    LET s == IF d < 0 THEN -1 ELSE 1
        g == GCD(Abs(n), Abs(d))
    IN  <<(s * n) \div g, (s * d) \div g>>

RInt(i) == <<i, 1>>
RAdd(a, b) == Norm(a[1] * b[2] + b[1] * a[2], a[2] * b[2])
RSub(a, b) == Norm(a[1] * b[2] - b[1] * a[2], a[2] * b[2])
RMul(a, b) == Norm(a[1] * b[1], a[2] * b[2])
RDiv(a, b) == Norm(a[1] * b[2], a[2] * b[1])
RNeg(a) == <<-a[1], a[2]>>
RLt(a, b) == a[1] * b[2] < b[1] * a[2]
RLe(a, b) == a[1] * b[2] <= b[1] * a[2]
RMax(a, b) == IF RLt(a, b) THEN b ELSE a
RMin(a, b) == IF RLt(b, a) THEN b ELSE a
RAbs(a) == <<Abs(a[1]), a[2]>>
\* Math.round: the nearest integer, halves rounded up.
RRound(a) == (2 * a[1] + a[2]) \div (2 * a[2])
\* Math.floor
RFloor(a) == a[1] \div a[2]

R0 == RInt(0)
R1 == RInt(1)
\* The literal 1.05
SnapScale == <<21, 20>>


-----------------------------------------------------------------------------
(* State *)

VARIABLES
    \* environment
    phase,              \* ms since the last multiple of TimeStep
    sampled,            \* a touch event was handled at this instant
    touches,            \* ev.touches.length: fingers in contact with the surface
    gestures,           \* two-finger touch-starts so far
    zoomCalls,          \* zoom-button presses so far
    contacts,           \* contact sequences begun so far
    resolution,         \* what StreamManager.getResolution() reports
    \* MouseHandler fields
    mode, enabled, sensitivity, scrollSensitivity, absPos, relTouchStart,
    touchStartTime, touchStartPos, touchMoved,
    lastTapTime, lastTapPos, singleTapTimer,
    longPressTimer, longPressFired,
    isDragging, dragHoldTimer, isSecondTapDown,
    twoFingerTapDetected, twoFingerStartTime, twoFingerMoved,
    scrollAnchor,
    pulseTimers,        \* the anonymous 50 ms button-release timeouts
    \* ZoomController fields
    zoomed, scale, translateX, translateY,
    isPanning, panStartMidX, panStartMidY, panStartTX, panStartTY,
    pinchStartDist, pinchStartScale, pinchStartTX, pinchStartTY,
    pinchFocalX, pinchFocalY, isPinching, gestureUndecided, isScroll,
    undecidedMidX, undecidedMidY,
    shownZoomed,        \* what the onZoomChange callback was last told
    \* KvmdWebSocket
    connected,          \* this._ws && this._ws.readyState === WebSocket.OPEN
    wire,               \* the frames the last step passed to WebSocket.send
    socket,             \* the connection state of KvmdWebSocket (see Socket0)
    \* ScrollWidget fields
    preset, macMode, centerY, trackHalf,
    displacement, direction, active,
    repeatTimer, repeatStartTime, tickCount,
    burstTimers,        \* the anonymous timeouts of a macOS burst
    presetChanges,      \* settings changes so far
    ticked,             \* the last step called _fireTick
    chains,             \* timeouts of _scheduleNextTick that are pending:
                        \* set and neither run nor cleared
    \* observation
    held,               \* per mouse button: the latest frame the gesture
                        \* recognizer sent for it was a button-down
    pend,               \* moves: touch-moves that wrote this._absPos since it
                        \* was last empty; sentFor: how many of them the
                        \* absolute-move frame of the last step stood for
    out,                \* the HID frames the last step handed to the
                        \* KvmdWebSocket senders, in order
    obs                 \* history of the current contact sequence (see Obs0)

envVars == <<phase, sampled, touches, gestures, zoomCalls, contacts>>
mouseVars == <<mode, enabled, sensitivity, scrollSensitivity, absPos,
               relTouchStart,
               touchStartTime, touchStartPos, touchMoved,
               lastTapTime, lastTapPos, singleTapTimer,
               longPressTimer, longPressFired,
               isDragging, dragHoldTimer, isSecondTapDown,
               twoFingerTapDetected, twoFingerStartTime, twoFingerMoved,
               scrollAnchor, pulseTimers>>
zoomVars == <<zoomed, scale, translateX, translateY,
              isPanning, panStartMidX, panStartMidY, panStartTX, panStartTY,
              pinchStartDist, pinchStartScale, pinchStartTX, pinchStartTY,
              pinchFocalX, pinchFocalY, isPinching, gestureUndecided, isScroll,
              undecidedMidX, undecidedMidY, shownZoomed>>
chanVars == <<connected, wire, socket>>
scrollVars == <<preset, macMode, centerY, trackHalf,
                displacement, direction, active,
                repeatTimer, repeatStartTime, tickCount,
                burstTimers, presetChanges, ticked, chains>>
vars == <<envVars, resolution, mouseVars, zoomVars, chanVars, scrollVars, held, pend, out, obs>>

-----------------------------------------------------------------------------
(* HID frames (KvmdWebSocket.sendMouseButton / MoveAbs / Relative / Wheel) *)

BtnEv(button, state) == [t |-> "button", b |-> button, s |-> state, x |-> 0, y |-> 0]
AbsEv(x, y) == [t |-> "abs", b |-> "", s |-> FALSE, x |-> x, y |-> y]
RelEv(dx, dy) == [t |-> "rel", b |-> "", s |-> FALSE, x |-> dx, y |-> dy]
WheelEv(dx, dy) == [t |-> "wheel", b |-> "", s |-> FALSE, x |-> dx, y |-> dy]

\* How many frames of `seq' are button frames / wheel frames / the given
\* button going down (state TRUE) or up (state FALSE)
CountButton(seq) == Cardinality({i \in DOMAIN seq : seq[i].t = "button"})
CountWheel(seq) == Cardinality({i \in DOMAIN seq : seq[i].t = "wheel"})
CountBtn(seq, button, state) ==
    Cardinality({i \in DOMAIN seq : seq[i] = BtnEv(button, state)})

\* KvmdWebSocket once connect() was called and the socket has opened
Socket0 == [
    stopped          |-> FALSE,   \* this._stopped
    sock             |-> "open",  \* the socket this._ws refers to: "none" (null),
                                  \* "connecting", "open", or "closed" (it has
                                  \* failed or was closed by the peer; its
                                  \* error / close event is still to be delivered)
    pingTimer        |-> TRUE,    \* this._pingTimer holds an interval
    reconnectTimer   |-> "none",  \* this._reconnectTimer: "none" (null), or the
                                  \* timeout it holds is "pending" or "spent"
    missedHeartbeats |-> 0,
    pings            |-> 1,       \* intervals of _ping set and not cleared
    reconnects       |-> 0,       \* reconnect timeouts set, not run, not cleared
    orphans          |-> 0,       \* sockets the program has let go of without
                                  \* closing them, still connecting or open
    made             |-> FALSE]   \* the last step called new WebSocket(url)

\* Variant: the senders send whatever the connection state
TransmitAlways(conn, frames) == frames
\* sendKey / sendMouseButton / sendMouseMoveAbs / sendMouseRelative /
\* sendMouseWheel: `if (!this.connected) return;' and then this._ws.send(data).
\* What reaches WebSocket.send of the frames handed to the senders.
Transmit(conn, frames) == IF conn THEN frames ELSE <<>>

\* The senders, for the frames of a step that leaves the connection alone
Channel ==
    /\ connected' = connected
    /\ wire' = Transmit(connected, out')
    /\ socket' = socket

\* The scroll widget is not touched: its listeners are on its own element
ScrollIdle == UNCHANGED scrollVars

\* No handler, timer callback or other setter assigns this._sensitivity or
\* this._scrollSensitivity
SensitivityKept == UNCHANGED <<sensitivity, scrollSensitivity>>

\* The remote resolution changes only when the server changes it
ResolutionKept == UNCHANGED resolution

\* The button frames of a frame sequence for one button, in order
ButtonFrames(seq, button) == SelectSeq(seq, LAMBDA e : e.t = "button" /\ e.b = button)
\* Whether the button is down after the frames, having been down (h) before
HeldAfter(h, seq, button) ==
    LET f == ButtonFrames(seq, button)
    IN  IF f = <<>> THEN h ELSE f[Len(f)].s
\* Every step of the recognizer records the button frames it handed to
\* sendMouseButton
HeldTracked ==
    held' = [left |-> HeldAfter(held.left, out', "left"),
             right |-> HeldAfter(held.right, out', "right")]

\* Every step records how many touch-moves have written the pending position
\* (wrote: this step is a touch-move that assigns this._absPos)
PendTracked(wrote) ==
    pend' = [moves |-> IF absPos' = NoPos THEN 0
                       ELSE IF wrote THEN pend.moves + 1 ELSE pend.moves,
             sentFor |-> IF \E i \in DOMAIN out' : out'[i].t = "abs"
                         THEN pend.moves ELSE 0]

-----------------------------------------------------------------------------
(* Geometry helpers *)

Pt(x, y) == [x |-> x, y |-> y]
DistSq(p, q) == (p.x - q.x) * (p.x - q.x) + (p.y - q.y) * (p.y - q.y)

\* _dist(t0, t1): Math.sqrt of the squared distance (exact squares here).
Dist(t0, t1) ==
    IF t0.y = t1.y THEN Abs(t0.x - t1.x)
    ELSE IF t0.x = t1.x THEN Abs(t0.y - t1.y)
    ELSE CHOOSE r \in 0..(Abs(t0.x - t1.x) + Abs(t0.y - t1.y)) : r * r = DistSq(t0, t1)

\* _midpoint(t0, t1) and MouseHandler._getMidpoint(t0, t1)
Midpoint(t0, t1) == Pt((t0.x + t1.x) \div 2, (t0.y + t1.y) \div 2)

\* Two touch points with the given distance (even) and midpoint.
Fingers(d, m) == <<Pt(m.x - d \div 2, m.y), Pt(m.x + d \div 2, m.y)>>

\* container.getBoundingClientRect() under the transform written by
\* _applyTransform, "scale(s) translate(tx/s, ty/s)" about the centre of the
\* container: a container point p is shown at  c + s*(p - c) + t .
RectLeft(s, tx) == RAdd(RMul(<<ViewW, 2>>, RSub(R1, s)), tx)
RectTop(s, ty) == RAdd(RMul(<<ViewH, 2>>, RSub(R1, s)), ty)


-----------------------------------------------------------------------------
(* ZoomController *)

\* get isPanningOrPinching
IsPanningOrPinching == isPanning \/ isPinching

\* Variant: no clamping
ClampTNone(view, s, t) == t
\* _clampTranslation, as a function of the scale and the value to clamp
ClampT(view, s, t) ==
    LET maxT == RDiv(RMul(RInt(view), RSub(s, R1)), RInt(2))
    IN  RMax(RNeg(maxT), RMin(maxT, t))

\* zoomToNative(): the scale that shows one source pixel per screen pixel
NativeScale(res) ==
    LET fitW == <<ViewW, res.realWidth>>
        fitH == <<ViewH, res.realHeight>>
    IN  RDiv(R1, RMin(fitW, fitH))

ZoomPanFrame == <<isPanning, panStartMidX, panStartMidY, panStartTX, panStartTY>>
ZoomPinchFrame == <<pinchStartDist, pinchStartScale, pinchStartTX, pinchStartTY,
                    pinchFocalX, pinchFocalY, isPinching, gestureUndecided, isScroll,
                    undecidedMidX, undecidedMidY>>

\* Variant: the callback is not called
NotifyChangeSkipped(z) == shownZoomed
\* _notifyChange(): what onZoomChange is told when this._zoomed is z
NotifyChange(z) == z

\* Variant: zooms whatever the native scale
ZoomToNativeAlways(res) ==
    IF res.realWidth = 0 \/ res.realHeight = 0
    THEN UNCHANGED zoomVars
    ELSE /\ scale' = NativeScale(res)
         /\ translateX' = R0
         /\ translateY' = R0
         /\ zoomed' = TRUE
         /\ shownZoomed' = TRUE
         /\ UNCHANGED <<ZoomPanFrame, ZoomPinchFrame>>

ZoomToNative(res) ==
    IF res.realWidth = 0 \/ res.realHeight = 0
    THEN UNCHANGED zoomVars
    ELSE IF RLe(NativeScale(res), SnapScale)
    THEN UNCHANGED zoomVars
    ELSE /\ scale' = NativeScale(res)
         /\ translateX' = R0
         /\ translateY' = R0
         /\ zoomed' = TRUE
         /\ shownZoomed' = TRUE
         /\ UNCHANGED <<ZoomPanFrame, ZoomPinchFrame>>

ResetZoom ==
    /\ scale' = R1
    /\ translateX' = R0
    /\ translateY' = R0
    /\ zoomed' = FALSE
    /\ shownZoomed' = FALSE
    /\ UNCHANGED <<ZoomPanFrame, ZoomPinchFrame>>

Toggle(res) == IF zoomed THEN ResetZoom ELSE ZoomToNative(res)

\* ZoomController._handleTouchStart with ev.touches = n fingers, the first
\* two at t0 and t1
ZoomTouchStart(n, t0, t1) ==
    IF n = 2
    THEN /\ pinchStartDist' = Dist(t0, t1)
         /\ pinchStartScale' = scale
         /\ pinchStartTX' = translateX
         /\ pinchStartTY' = translateY
         /\ gestureUndecided' = TRUE
         /\ isScroll' = FALSE
         /\ isPinching' = FALSE
         /\ isPanning' = FALSE
         /\ undecidedMidX' = Midpoint(t0, t1).x
         /\ undecidedMidY' = Midpoint(t0, t1).y
         /\ UNCHANGED <<zoomed, scale, translateX, translateY, shownZoomed,
                        panStartMidX, panStartMidY, panStartTX, panStartTY,
                        pinchFocalX, pinchFocalY>>
    ELSE UNCHANGED zoomVars

\* Variant: the midpoint test is applied before the distance test
ClassifyMidFirst(d, mid) ==
    IF Abs(mid.x - undecidedMidX) > PAN_THRESHOLD
       \/ Abs(mid.y - undecidedMidY) > PAN_THRESHOLD
    THEN (IF zoomed THEN "pan" ELSE "scroll")
    ELSE IF Abs(d - pinchStartDist) > PINCH_THRESHOLD THEN "pinch"
    ELSE "undecided"
\* The classification step of _handleTouchMove (lines 149-189): what the
\* undecided gesture becomes on a move to distance d and midpoint mid.
Classify(d, mid) ==
    IF Abs(d - pinchStartDist) > PINCH_THRESHOLD THEN "pinch"
    ELSE IF Abs(mid.x - undecidedMidX) > PAN_THRESHOLD
            \/ Abs(mid.y - undecidedMidY) > PAN_THRESHOLD
         THEN (IF zoomed THEN "pan" ELSE "scroll")
         ELSE "undecided"

\* Variant: a decided gesture is classified again on every move
ClassAfterAgain(d, mid) ==
    IF gestureUndecided \/ isScroll \/ isPanning \/ isPinching
    THEN (IF Classify(d, mid) = "undecided"
          THEN (IF isScroll THEN "scroll" ELSE IF isPanning THEN "pan"
                ELSE IF isPinching THEN "pinch" ELSE "undecided")
          ELSE Classify(d, mid))
    ELSE "none"
\* The class of the gesture when the classification step is over
ClassAfter(d, mid) ==
    IF gestureUndecided THEN Classify(d, mid)
    ELSE IF isScroll THEN "scroll"
    ELSE IF isPanning THEN "pan"
    ELSE IF isPinching THEN "pinch"
    ELSE "none"

\* Variant: the ratio is applied to the current scale
PinchScaleOnCurrent(d) ==
    RMax(RInt(MIN_SCALE),
         RMin(RMul(scale, <<d, pinchStartDist>>), RInt(MAX_SCALE)))
\* The pinch scale: start scale times distance ratio, clamped
PinchScale(d) ==
    RMax(RInt(MIN_SCALE),
         RMin(RMul(pinchStartScale, <<d, pinchStartDist>>), RInt(MAX_SCALE)))

\* ZoomController._handleTouchMove
ZoomTouchMove(n, t0, t1) ==
    LET d == Dist(t0, t1)
        mid == Midpoint(t0, t1)
        cls == ClassAfter(d, mid)
        decidedNow == gestureUndecided /\ cls # "undecided"
        \* focal point, computed when the gesture is classified as pinch
        focalX == IF decidedNow /\ cls = "pinch"
                  THEN RDiv(RSub(RInt(mid.x), RectLeft(scale, translateX)), pinchStartScale)
                  ELSE pinchFocalX
        focalY == IF decidedNow /\ cls = "pinch"
                  THEN RDiv(RSub(RInt(mid.y), RectTop(scale, translateY)), pinchStartScale)
                  ELSE pinchFocalY
        newScale == PinchScale(d)
    IN
    IF n # 2 \/ cls = "none"
    THEN UNCHANGED zoomVars
    ELSE
      /\ gestureUndecided' = (cls = "undecided")
      /\ isPinching' = (cls = "pinch")
      /\ isScroll' = (cls = "scroll")
      /\ isPanning' = (cls = "pan")
      /\ pinchFocalX' = focalX
      /\ pinchFocalY' = focalY
      /\ IF decidedNow /\ cls = "pan"
         THEN /\ panStartMidX' = mid.x
              /\ panStartMidY' = mid.y
              /\ panStartTX' = translateX
              /\ panStartTY' = translateY
         ELSE UNCHANGED <<panStartMidX, panStartMidY, panStartTX, panStartTY>>
      /\ UNCHANGED <<pinchStartDist, pinchStartScale, pinchStartTX, pinchStartTY,
                     undecidedMidX, undecidedMidY, shownZoomed>>
      /\ CASE cls = "pan" ->
                LET stx == IF decidedNow THEN translateX ELSE panStartTX
                    sty == IF decidedNow THEN translateY ELSE panStartTY
                    smx == IF decidedNow THEN mid.x ELSE panStartMidX
                    smy == IF decidedNow THEN mid.y ELSE panStartMidY
                IN  /\ translateX' = ClampT(ViewW, scale, RAdd(stx, RInt(mid.x - smx)))
                    /\ translateY' = ClampT(ViewH, scale, RAdd(sty, RInt(mid.y - smy)))
                    /\ UNCHANGED <<scale, zoomed>>
           [] cls = "pinch" ->
                /\ scale' = newScale
                /\ zoomed' = RLt(SnapScale, newScale)
                /\ translateX' = ClampT(ViewW, newScale,
                       RAdd(pinchStartTX, RMul(RSub(focalX, <<ViewW, 2>>),
                                               RSub(pinchStartScale, newScale))))
                /\ translateY' = ClampT(ViewH, newScale,
                       RAdd(pinchStartTY, RMul(RSub(focalY, <<ViewH, 2>>),
                                               RSub(pinchStartScale, newScale))))
           [] OTHER -> UNCHANGED <<scale, zoomed, translateX, translateY>>

\* ev.stopPropagation() in _handleTouchMove: the pan and the pinch branch
ZoomMoveStops(n) == n = 2 /\ (isPanning' \/ isPinching')

\* Variant: the gesture ends only when the last finger lifts
EndsGestureAtLast(n) == n < 1
\* `if (ev.touches.length < 2)' of _handleTouchEnd: the two-finger gesture ended
EndsGesture(n) == n < 2

\* ZoomController._handleTouchEnd with n fingers left
ZoomTouchEnd(n) ==
    IF EndsGesture(n)
    THEN /\ isPinching' = FALSE
         /\ isPanning' = FALSE
         /\ gestureUndecided' = FALSE
         /\ isScroll' = FALSE
         /\ UNCHANGED <<panStartMidX, panStartMidY, panStartTX, panStartTY,
                        pinchStartDist, pinchStartScale, pinchStartTX, pinchStartTY,
                        pinchFocalX, pinchFocalY, undecidedMidX, undecidedMidY>>
         /\ IF isPinching
            THEN IF RLt(scale, SnapScale)
                 THEN /\ scale' = R1
                      /\ translateX' = R0
                      /\ translateY' = R0
                      /\ zoomed' = FALSE
                      /\ shownZoomed' = FALSE
                 ELSE /\ translateX' = ClampT(ViewW, scale, translateX)
                      /\ translateY' = ClampT(ViewH, scale, translateY)
                      /\ shownZoomed' = NotifyChange(zoomed)
                      /\ UNCHANGED <<scale, zoomed>>
            ELSE IF isPanning
            THEN /\ translateX' = ClampT(ViewW, scale, translateX)
                 /\ translateY' = ClampT(ViewH, scale, translateY)
                 /\ UNCHANGED <<scale, zoomed, shownZoomed>>
            ELSE UNCHANGED <<scale, zoomed, translateX, translateY, shownZoomed>>
    ELSE UNCHANGED zoomVars

\* ev.stopPropagation() in _handleTouchEnd: after a pinch or a pan
ZoomEndStops(n) == EndsGesture(n) /\ (isPinching \/ isPanning)


-----------------------------------------------------------------------------
(* MouseHandler: helpers *)

\* The getStreamGeometry callback of the application: the displayed media
\* rectangle inside the view, letterboxed to the aspect ratio of the source.
StreamGeometry(res) ==
    LET ratio == RMin(<<ViewW, res.realWidth>>, <<ViewH, res.realHeight>>)
    IN  [x |-> RRound(RDiv(RSub(RInt(ViewW), RMul(ratio, RInt(res.realWidth))), RInt(2))),
         y |-> RRound(RDiv(RSub(RInt(ViewH), RMul(ratio, RInt(res.realHeight))), RInt(2))),
         width |-> RRound(RMul(ratio, RInt(res.realWidth))),
         height |-> RRound(RMul(ratio, RInt(res.realHeight)))]

\* getStreamGeometry() now
Geo == StreamGeometry(resolution)

\* Variant of _remap without the final clamp
RemapUnclamped(value, inMin, inMax, outMin, outMax) ==
    LET den == IF inMax - inMin = 0 THEN 1 ELSE inMax - inMin
    IN  RRound(RAdd(<<(value - inMin) * (outMax - outMin), den>>, RInt(outMin)))

\* _remap(value, inMin, inMax, outMin, outMax)
Remap(value, inMin, inMax, outMin, outMax) ==
    LET den == IF inMax - inMin = 0 THEN 1 ELSE inMax - inMin
        result == RRound(RAdd(<<(value - inMin) * (outMax - outMin), den>>, RInt(outMin)))
    IN  IF result < outMin THEN outMin ELSE IF result > outMax THEN outMax ELSE result

\* _screenToContainerPos(screenX, screenY), given the ZoomController state
ScreenToContainerPos(z, s, tx, ty, p) ==
    IF z
    THEN Pt(RRound(RDiv(RSub(RInt(p.x), RectLeft(s, tx)), s)),
            RRound(RDiv(RSub(RInt(p.y), RectTop(s, ty)), s)))
    ELSE Pt(RRound(RSub(RInt(p.x), RectLeft(s, tx))),
            RRound(RSub(RInt(p.y), RectTop(s, ty))))

\* _getTouchPos(touch), evaluated after ZoomController's handler has run
TouchPos(p) == ScreenToContainerPos(zoomed', scale', translateX', translateY', p)

\* _isZoomGesture(), evaluated after ZoomController's handler has run
IsZoomGesture == isPanning' \/ isPinching'

\* _sendPlannedMove() when this._absPos is p: the frames it sends ...
PlannedOut(p) ==
    IF mode = "absolute" /\ p # NoPos
    THEN <<AbsEv(Remap(p.x - Geo.x, 0, Geo.width - 1, AbsMin, AbsMax),
                 Remap(p.y - Geo.y, 0, Geo.height - 1, AbsMin, AbsMax))>>
    ELSE <<>>
\* Variant: the position stays pending after it was sent
PlannedPosKept(p) == p
\* ... and the value it leaves in this._absPos
PlannedPos(p) == IF mode = "absolute" /\ p # NoPos THEN NoPos ELSE p

\* Math.floor(d * sensitivity), without the clamp
RelDeltaUnclamped(d) == RFloor(RMul(RInt(d), sensitivity))

\* Math.min(Math.max(-127, Math.floor(d * sensitivity)), 127)
RelDelta(d) ==
    LET v == RFloor(RMul(RInt(d), sensitivity))
    IN  IF v < -RelLimit THEN -RelLimit ELSE IF v > RelLimit THEN RelLimit ELSE v

\* The relative-move frame for a move from the anchor to pos (lines 261-268)
RelOut(anchor, pos) ==
    LET dx == RelDelta(pos.x - anchor.x)
        dy == RelDelta(pos.y - anchor.y)
    IN  IF dx # 0 \/ dy # 0 THEN <<RelEv(dx, dy)>> ELSE <<>>

\* setTimeout(() => this._ws.sendMouseButton(button, false), 50)
\* (src tells which callback armed it: a touch gesture or the deferred tap click)
Pulse(button, src) == [b |-> button, at |-> now + PULSE_DELAY, src |-> src]

\* Second tap of a double tap (line 121-124)
IsSecondTap(pos) ==
    /\ lastTapTime # 0
    /\ now - lastTapTime < DOUBLE_TAP_WINDOW
    /\ lastTapPos # NoPos
    /\ DistSq(pos, lastTapPos) < (TAP_MAX_DISTANCE * 2) * (TAP_MAX_DISTANCE * 2)

\* Variant: the second tap leaves the deferred click armed
SecondTapTimerKept == singleTapTimer
\* The second tap cancels the deferred single-tap click (lines 126-129)
SecondTapTimer == NoTimer

\* Variant: the deferred click is armed in every mode
DeferredClickTimerAlways == now + DOUBLE_TAP_WINDOW
\* _processTap: the deferred click is armed in relative mode only (408-417)
DeferredClickTimer ==
    IF mode = "relative" THEN now + DOUBLE_TAP_WINDOW ELSE singleTapTimer

\* Variant: the threshold is twice TAP_MAX_DISTANCE
MovedBeyondTapFar(pos) ==
    /\ touchStartPos # NoPos
    /\ DistSq(pos, touchStartPos) > (2 * TAP_MAX_DISTANCE) * (2 * TAP_MAX_DISTANCE)
\* Touch moved beyond the tap threshold (lines 216-219)
MovedBeyondTap(pos) ==
    /\ touchStartPos # NoPos
    /\ DistSq(pos, touchStartPos) > TAP_MAX_DISTANCE * TAP_MAX_DISTANCE

\* Variant: a move during the hold presses the button even while dragging
MoveEntersDragAgain == isSecondTapDown
\* A move during the second-tap hold enters drag at once (line 224)
MoveEntersDrag == isSecondTapDown /\ ~isDragging

\* Condition of the drag-hold timer callback (line 136)
DragHoldCond == isSecondTapDown /\ ~touchMoved

\* Condition of the long-press timer callback (line 163)
LongPressCond == ~touchMoved /\ ~longPressFired /\ ~isDragging

\* wasTap (line 361)
WasTap == ~touchMoved /\ now - touchStartTime < TAP_MAX_DURATION

\* Two-finger scroll dead zone (line 282), d the midpoint displacement
BeyondDeadZone(d) == Abs(d) > SCROLL_DEAD_ZONE

\* Variant of scrollX / scrollY: the sign convention reversed
ScrollDirReversed(d) ==
    IF BeyondDeadZone(d)
    THEN (IF d > 0 THEN -scrollSensitivity ELSE scrollSensitivity)
    ELSE 0

\* scrollX / scrollY (lines 289-297)
ScrollDir(d) ==
    IF BeyondDeadZone(d)
    THEN (IF d > 0 THEN scrollSensitivity ELSE -scrollSensitivity)
    ELSE 0


-----------------------------------------------------------------------------
(* MouseHandler: touch handlers.  Each defines the next value of every      *)
(* variable of mouseVars and the frames `out' it sends.                     *)

TwoFingerFrame == <<twoFingerTapDetected, twoFingerStartTime, twoFingerMoved, scrollAnchor>>

\* The handler returns at once: disabled, or the ZoomController owns the gesture
MouseIgnores ==
    /\ out' = <<>>
    /\ UNCHANGED mouseVars

\* _handleTouchStart, ev.touches.length === 1, the touch at screen point p
MouseTouchStart1(p) ==
    LET pos == TouchPos(p)
        second == IsSecondTap(pos)
    IN
    /\ touchStartTime' = now
    /\ touchStartPos' = pos
    /\ touchMoved' = FALSE
    /\ longPressFired' = FALSE
    /\ IF second
       THEN /\ singleTapTimer' = SecondTapTimer
            /\ isSecondTapDown' = TRUE
            /\ dragHoldTimer' = now + DRAG_HOLD_DELAY
            /\ UNCHANGED longPressTimer
       ELSE /\ longPressTimer' = now + LONG_PRESS_DELAY
            /\ UNCHANGED <<singleTapTimer, isSecondTapDown, dragHoldTimer>>
    /\ IF mode = "absolute"
       THEN /\ absPos' = PlannedPos(pos)
            /\ out' = PlannedOut(pos)
            /\ UNCHANGED relTouchStart
       ELSE /\ relTouchStart' = pos
            /\ out' = <<>>
            /\ UNCHANGED absPos
    /\ UNCHANGED <<mode, enabled, lastTapTime, lastTapPos, isDragging,
                   TwoFingerFrame, pulseTimers>>

\* Variant: the second finger leaves a pending timer armed
SecondFingerTimerKept(timer) == timer
\* The second finger cancels the long-press and drag-hold timers (179-186)
SecondFingerTimer(timer) == NoTimer

\* _handleTouchStart, ev.touches.length === 2
MouseTouchStart2(t0, t1) ==
    LET mid == Midpoint(t0, t1)
        midPos == TouchPos(mid)
    IN
    /\ longPressTimer' = SecondFingerTimer(longPressTimer)
    /\ dragHoldTimer' = SecondFingerTimer(dragHoldTimer)
    /\ isSecondTapDown' = FALSE
    /\ twoFingerStartTime' = now
    /\ twoFingerMoved' = FALSE
    /\ twoFingerTapDetected' = TRUE
    /\ scrollAnchor' = mid
    /\ IF mode = "absolute"
       THEN /\ absPos' = PlannedPos(midPos)
            /\ out' = PlannedOut(midPos)
       ELSE /\ out' = <<>>
            /\ UNCHANGED absPos
    /\ UNCHANGED <<mode, enabled, relTouchStart, touchStartTime, touchStartPos,
                   touchMoved, lastTapTime, lastTapPos, singleTapTimer,
                   longPressFired, isDragging, pulseTimers>>

\* _handleTouchStart after the two guards
MouseTouchStart(n, t0, t1) ==
    IF n = 1 THEN MouseTouchStart1(t0)
    ELSE IF n = 2 THEN MouseTouchStart2(t0, t1)
    ELSE MouseIgnores

\* _handleTouchMove, ev.touches.length === 1
MouseTouchMove1(p) ==
    LET pos == TouchPos(p)
        moved == MovedBeyondTap(pos)
        enterDrag == moved /\ MoveEntersDrag
        down == IF enterDrag THEN <<BtnEv("left", TRUE)>> ELSE <<>>
    IN
    /\ touchMoved' = (touchMoved \/ moved)
    /\ isDragging' = (isDragging \/ enterDrag)
    /\ dragHoldTimer' = IF enterDrag THEN NoTimer ELSE dragHoldTimer
    /\ longPressTimer' = IF moved THEN NoTimer ELSE longPressTimer
    /\ IF mode = "absolute"
       THEN /\ absPos' = pos
            /\ out' = down
            /\ UNCHANGED relTouchStart
       ELSE IF relTouchStart # NoPos
       THEN /\ out' = down \o RelOut(relTouchStart, pos)
            /\ relTouchStart' = pos
            /\ UNCHANGED absPos
       ELSE /\ out' = down
            /\ UNCHANGED <<absPos, relTouchStart>>
    /\ UNCHANGED <<mode, enabled, touchStartTime, touchStartPos, lastTapTime,
                   lastTapPos, singleTapTimer, longPressFired, isSecondTapDown,
                   TwoFingerFrame, pulseTimers>>

\* _handleTouchMove, ev.touches.length === 2
MouseTouchMove2(t0, t1) ==
    LET mid == Midpoint(t0, t1)
        dx == mid.x - scrollAnchor.x
        dy == mid.y - scrollAnchor.y
        scrolls == scrollAnchor # NoPos /\ (BeyondDeadZone(dy) \/ BeyondDeadZone(dx))
    IN
    /\ IF scrolls
       THEN /\ twoFingerMoved' = TRUE
            /\ twoFingerTapDetected' = FALSE
            /\ out' = <<WheelEv(ScrollDir(dx), ScrollDir(dy))>>
            /\ scrollAnchor' = mid
       ELSE /\ out' = <<>>
            /\ UNCHANGED <<twoFingerMoved, twoFingerTapDetected, scrollAnchor>>
    /\ absPos' = NoPos
    /\ UNCHANGED <<mode, enabled, relTouchStart, touchStartTime, touchStartPos,
                   touchMoved, lastTapTime, lastTapPos, singleTapTimer,
                   longPressTimer, longPressFired, isDragging, dragHoldTimer,
                   isSecondTapDown, twoFingerStartTime, pulseTimers>>

\* _handleTouchMove after the two guards
MouseTouchMove(n, t0, t1) ==
    IF n = 1 THEN MouseTouchMove1(t0)
    ELSE IF n = 2 THEN MouseTouchMove2(t0, t1)
    ELSE MouseIgnores

\* _resetState(), and the identical reset at lines 383-387
ResetState ==
    /\ relTouchStart' = NoPos
    /\ touchStartPos' = NoPos
    /\ twoFingerTapDetected' = FALSE
    /\ scrollAnchor' = NoPos

\* _handleTouchEnd with no finger left (lines 318-387)
MouseTouchEnd0 ==
    LET flush == PlannedOut(absPos)
    IN
    /\ longPressTimer' = NoTimer
    /\ absPos' = PlannedPos(absPos)
    /\ ResetState
    /\ UNCHANGED <<mode, enabled, touchStartTime, touchMoved, longPressFired,
                   twoFingerStartTime, twoFingerMoved>>
    /\ IF isDragging
       THEN \* release the left button
            /\ out' = flush \o <<BtnEv("left", FALSE)>>
            /\ isDragging' = FALSE
            /\ isSecondTapDown' = FALSE
            /\ dragHoldTimer' = NoTimer
            /\ lastTapTime' = 0
            /\ lastTapPos' = NoPos
            /\ UNCHANGED <<singleTapTimer, pulseTimers>>
       ELSE IF isSecondTapDown
       THEN \* a regular double-tap click
            /\ isSecondTapDown' = FALSE
            /\ dragHoldTimer' = NoTimer
            /\ out' = flush \o <<BtnEv("left", TRUE)>>
            /\ pulseTimers' = Append(pulseTimers, Pulse("left", "touch"))
            /\ lastTapTime' = 0
            /\ lastTapPos' = NoPos
            /\ UNCHANGED <<isDragging, singleTapTimer>>
       ELSE IF longPressFired
       THEN /\ out' = flush
            /\ UNCHANGED <<isDragging, isSecondTapDown, dragHoldTimer, lastTapTime,
                           lastTapPos, singleTapTimer, pulseTimers>>
       ELSE IF mode = "relative" /\ twoFingerTapDetected /\ ~twoFingerMoved
       THEN \* two-finger tap: right click
            /\ IF now - twoFingerStartTime < TAP_MAX_DURATION
               THEN /\ out' = flush \o <<BtnEv("right", TRUE)>>
                    /\ pulseTimers' = Append(pulseTimers, Pulse("right", "touch"))
               ELSE /\ out' = flush
                    /\ UNCHANGED pulseTimers
            /\ UNCHANGED <<isDragging, isSecondTapDown, dragHoldTimer, lastTapTime,
                           lastTapPos, singleTapTimer>>
       ELSE IF WasTap /\ touchStartPos # NoPos
       THEN \* _processTap()
            /\ out' = flush
            /\ lastTapTime' = now
            /\ lastTapPos' = touchStartPos
            /\ singleTapTimer' = DeferredClickTimer
            /\ UNCHANGED <<isDragging, isSecondTapDown, dragHoldTimer, pulseTimers>>
       ELSE /\ out' = flush
            /\ UNCHANGED <<isDragging, isSecondTapDown, dragHoldTimer, lastTapTime,
                           lastTapPos, singleTapTimer, pulseTimers>>

\* _handleTouchEnd after the two guards, n fingers left
MouseTouchEnd(n) ==
    IF n = 0 THEN MouseTouchEnd0
    ELSE /\ longPressTimer' = NoTimer
         /\ out' = <<>>
         /\ IF n = 1
            THEN /\ twoFingerTapDetected' = FALSE
                 /\ scrollAnchor' = NoPos
            ELSE UNCHANGED <<twoFingerTapDetected, scrollAnchor>>
         /\ UNCHANGED <<mode, enabled, absPos, relTouchStart, touchStartTime,
                        touchStartPos, touchMoved, lastTapTime, lastTapPos,
                        singleTapTimer, longPressFired, isDragging, dragHoldTimer,
                        isSecondTapDown, twoFingerStartTime, twoFingerMoved,
                        pulseTimers>>


-----------------------------------------------------------------------------
(* Observation of a contact sequence.  A contact sequence runs from the     *)
(* first finger landing on the empty surface until all fingers have lifted. *)
(* obs records what physically happened in the current sequence (or the     *)
(* last one, while no finger is down) and what was sent for it; it is not   *)
(* read by the handlers.                                                    *)

CountCap == 3
Capped(i) == IF i > CountCap THEN CountCap ELSE i

NoTap == [t |-> 0, p |-> NoPos]

Obs0 == [
    kind    |-> "none",   \* "first": began with one finger, not a second tap;
                          \* "second": began with one finger within 300 ms and
                          \*           20 px of the latest unpaired tap;
                          \* "multi": began with two fingers at once
    single  |-> TRUE,     \* never more than one finger so far
    startT  |-> 0,        \* when the first finger landed
    startP  |-> NoPos,    \* where (container coordinates)
    movedAt |-> 0,        \* ms after startT at which a move first put the finger
                          \* more than 10 px from startP, plus 1 (0: never)
    endT    |-> 0,        \* when all fingers had lifted (0: still in contact)
    heldFor |-> 0,        \* ms from startT to endT
    ld |-> 0, lu |-> 0,   \* left / right button frames sent for this sequence
    rd |-> 0, ru |-> 0,
    oldL |-> 0, oldR |-> 0, \* release timeouts of earlier sequences still pending
    twoT    |-> 0,        \* when the second finger landed (0: never)
    armed   |-> "",       \* the timer that was pending when it landed:
                          \* "long" (long press), "drag" (drag hold) or none
    still2  |-> FALSE,    \* a second finger landed, and no two-finger move
                          \* since had the midpoint more than 5 px from where
                          \* it was then, on either axis
    quick2  |-> FALSE,    \* all fingers lifted within 200 ms of its landing
    undec   |-> FALSE,    \* fewer than two fingers were left while
                          \* ZoomController had not classified the gesture
    wheel   |-> 0,        \* wheel frames since the second finger landed
    btn2    |-> 0,        \* button frames sent by touch handlers since then
    claimed |-> FALSE,    \* ZoomController classified it as pinch or pan
    xform   |-> FALSE,    \* ZoomController's handlers changed the transform
    d0      |-> 0,        \* finger distance at the two-finger touch-start
                          \* (0: no two-finger touch-start, or fewer than two
                          \* fingers left since)
    m0      |-> NoPos,    \* midpoint at the two-finger touch-start
    moved2  |-> FALSE,    \* there was a two-finger touch-move since
    early   |-> FALSE,    \* there was one before the move recorded in first15
    distEver |-> FALSE,   \* one of them had the distance beyond 15 px of d0
    midEver |-> FALSE,    \* one of them had the midpoint beyond 10 px of m0
    first15 |-> "",       \* the first move beyond 15 px, when no earlier move
                          \* was beyond 10 px: "dist" if its midpoint was
                          \* within 10 px of m0, "both" if not
    prevTap |-> NoTap,    \* the latest tap not yet paired with a second tap
    owed    |-> {},       \* deadlines of the deferred clicks owed to relative taps
    extra   |-> 0         \* deferred clicks sent that no tap was owed
]

\* Frames sent by a touch handler or by the drag-hold / long-press callback
ObsSent(o, frames) ==
    [o EXCEPT !.ld = Capped(@ + CountBtn(frames, "left", TRUE)),
              !.lu = Capped(@ + CountBtn(frames, "left", FALSE)),
              !.rd = Capped(@ + CountBtn(frames, "right", TRUE)),
              !.ru = Capped(@ + CountBtn(frames, "right", FALSE)),
              !.wheel = IF o.twoT # 0 /\ o.endT = 0
                        THEN Capped(@ + CountWheel(frames)) ELSE @,
              !.btn2 = IF o.twoT # 0 /\ o.endT = 0
                       THEN Capped(@ + CountButton(frames)) ELSE @]

PendingPulses(b) ==
    Cardinality({i \in DOMAIN pulseTimers :
                    pulseTimers[i].b = b /\ pulseTimers[i].src = "touch"})

\* The touch at container position pos is a second tap, physically
PhysSecond(o, pos) ==
    /\ o.prevTap.t # 0
    /\ now - o.prevTap.t < DOUBLE_TAP_WINDOW
    /\ DistSq(pos, o.prevTap.p) < (2 * TAP_MAX_DISTANCE) * (2 * TAP_MAX_DISTANCE)

\* A finger lands: n fingers are now down, the first at container position pos
ObsStart(o, n, pos) ==
    IF touches = 0
    THEN [Obs0 EXCEPT
            !.kind = IF n >= 2 THEN "multi"
                     ELSE IF PhysSecond(o, pos) THEN "second" ELSE "first",
            !.single = (n = 1),
            !.startT = now,
            !.startP = pos,
            !.oldL = PendingPulses("left"),
            !.oldR = PendingPulses("right"),
            !.twoT = IF n >= 2 THEN now ELSE 0,
            !.still2 = (n = 2),
            !.prevTap = IF n = 1 /\ PhysSecond(o, pos) THEN NoTap ELSE o.prevTap,
            !.owed = IF n = 1 /\ PhysSecond(o, pos)
                     THEN o.owed \ {o.prevTap.t + DOUBLE_TAP_WINDOW} ELSE o.owed,
            !.extra = o.extra]
    ELSE [o EXCEPT !.single = FALSE,
                   !.twoT = IF n = 2 THEN now ELSE @,
                   !.still2 = IF n = 2 THEN TRUE ELSE @,
                   !.undec = IF n = 2 THEN FALSE ELSE @,
                   !.armed = IF n # 2 THEN @
                             ELSE IF dragHoldTimer # NoTimer THEN "drag"
                             ELSE IF longPressTimer # NoTimer THEN "long"
                             ELSE "",
                   !.wheel = IF n = 2 THEN 0 ELSE @,
                   !.btn2 = IF n = 2 THEN 0 ELSE @,
                   !.claimed = IF n = 2 THEN FALSE ELSE @,
                   !.xform = IF n = 2 THEN FALSE ELSE @]

\* A touch-start with n fingers down, the first two at screen points t0, t1
ObsTwoStart(o, n, t0, t1) ==
    IF n = 2
    THEN [o EXCEPT !.d0 = Dist(t0, t1),
                   !.m0 = Midpoint(t0, t1),
                   !.moved2 = FALSE,
                   !.early = FALSE,
                   !.distEver = FALSE,
                   !.midEver = FALSE,
                   !.first15 = ""]
    ELSE o

\* A touch-move with n fingers down, the first two at screen points t0, t1
ObsTwoMove(o, n, t0, t1) ==
    LET far == Abs(Dist(t0, t1) - o.d0) > PINCH_THRESHOLD
        off == \/ Abs(Midpoint(t0, t1).x - o.m0.x) > PAN_THRESHOLD
               \/ Abs(Midpoint(t0, t1).y - o.m0.y) > PAN_THRESHOLD
    IN  IF n = 2 /\ o.d0 # 0
        THEN [o EXCEPT !.moved2 = TRUE,
                       !.distEver = @ \/ far,
                       !.midEver = @ \/ off,
                       !.early = IF far /\ ~o.distEver /\ ~o.midEver
                                 THEN o.moved2 ELSE @,
                       !.first15 = IF far /\ ~o.distEver /\ ~o.midEver
                                   THEN (IF off THEN "both" ELSE "dist")
                                   ELSE @]
        ELSE o

\* A touch-end that leaves n fingers
ObsTwoEnd(o, n) ==
    IF n < 2
    THEN [o EXCEPT !.d0 = 0, !.m0 = NoPos, !.moved2 = FALSE, !.early = FALSE,
                   !.distEver = FALSE, !.midEver = FALSE, !.first15 = ""]
    ELSE o

\* A single finger moves to container position pos
ObsMove(o, n, pos) ==
    IF n = 1 /\ o.single /\ o.movedAt = 0 /\ o.startP # NoPos
       /\ DistSq(pos, o.startP) > TAP_MAX_DISTANCE * TAP_MAX_DISTANCE
    THEN [o EXCEPT !.movedAt = now - o.startT + 1]
    ELSE o

\* Two fingers move, the midpoint of the first two is at screen point mid
ObsMid(o, n, mid) ==
    IF n = 2 /\ o.m0 # NoPos
       /\ (BeyondDeadZone(mid.x - o.m0.x) \/ BeyondDeadZone(mid.y - o.m0.y))
    THEN [o EXCEPT !.still2 = FALSE]
    ELSE o

\* The sequence was a tap: one finger, under 200 ms, never beyond 10 px
PhysTap(o) ==
    /\ o.kind = "first"
    /\ o.single
    /\ o.movedAt = 0
    /\ now - o.startT < TAP_MAX_DURATION

\* Fingers lift, n are left
ObsEnd(o, n) ==
    IF n = 0
    THEN [o EXCEPT !.endT = now,
                   !.heldFor = now - o.startT,
                   !.quick2 = o.twoT # 0 /\ now - o.twoT < TAP_MAX_DURATION,
                   !.prevTap = IF PhysTap(o) THEN [t |-> now, p |-> o.startP] ELSE @,
                   !.owed = IF PhysTap(o) /\ mode = "relative"
                            THEN @ \cup {now + DOUBLE_TAP_WINDOW} ELSE @]
    ELSE o

\* Fingers lift, n are left: the two-finger gesture ends unclassified
ObsUndecided(o, n) ==
    IF n < 2 /\ touches >= 2 THEN [o EXCEPT !.undec = gestureUndecided] ELSE o

\* What ZoomController's handler did in this step
ObsZoom(o) ==
    [o EXCEPT !.claimed = @ \/ isPinching' \/ isPanning',
              !.xform = @ \/ <<scale, translateX, translateY, zoomed>>
                               # <<scale', translateX', translateY', zoomed'>>]


\* The record after dt has passed
ObsAged(o, dt) ==
    [o EXCEPT !.startT = Aged(@, dt, LONG_PRESS_DELAY + PULSE_DELAY),
              !.endT = Aged(@, dt, PULSE_DELAY),
              !.twoT = Aged(@, dt, TAP_MAX_DURATION),
              !.prevTap = [@ EXCEPT !.t = Aged(@, dt, DOUBLE_TAP_WINDOW)],
              !.owed = {Aged(d, dt, PULSE_DELAY) : d \in @}]

-----------------------------------------------------------------------------
(* Timers and the clock *)

PulseDue == \E i \in DOMAIN pulseTimers : pulseTimers[i].at = now

\* Some timeout callback is due now
AnyDue ==
    \/ singleTapTimer = now
    \/ longPressTimer = now
    \/ dragHoldTimer = now
    \/ PulseDue

Deadlines ==
    ({singleTapTimer, longPressTimer, dragHoldTimer} \ {NoTimer})
        \cup {pulseTimers[i].at : i \in DOMAIN pulseTimers}

\* How much time passes in one step of the clock: up to the earliest
\* deadline, at most TimeStep
Elapse ==
    LET later == {d - now : d \in {e \in Deadlines : e > now}}
        grid == TimeStep - phase
    IN  IF \E d \in later : d < grid
        THEN CHOOSE d \in later : \A e \in later : d <= e
        ELSE grid


RemoveAt(seq, i) == [j \in 1..(Len(seq) - 1) |-> IF j < i THEN seq[j] ELSE seq[j + 1]]

\* The drag-hold timeout callback (lines 135-146)
DragHoldFire ==
    /\ dragHoldTimer = now
    /\ dragHoldTimer' = NoTimer
    /\ IF DragHoldCond
       THEN /\ isDragging' = TRUE
            /\ out' = <<BtnEv("left", TRUE)>>
            /\ longPressTimer' = NoTimer
       ELSE /\ out' = <<>>
            /\ UNCHANGED <<isDragging, longPressTimer>>
    /\ obs' = ObsSent(obs, out')
    /\ UNCHANGED <<envVars, zoomVars, mode, enabled, absPos, relTouchStart,
                   touchStartTime, touchStartPos, touchMoved, lastTapTime, lastTapPos,
                   singleTapTimer, longPressFired, isSecondTapDown, TwoFingerFrame,
                   pulseTimers>>
    /\ Channel
    /\ ScrollIdle
    /\ SensitivityKept
    /\ ResolutionKept
    /\ HeldTracked
    /\ PendTracked(FALSE)

\* The long-press timeout callback (lines 162-169)
LongPressFire ==
    /\ longPressTimer = now
    /\ longPressTimer' = NoTimer
    /\ IF LongPressCond
       THEN /\ longPressFired' = TRUE
            /\ out' = <<BtnEv("right", TRUE)>>
            /\ pulseTimers' = Append(pulseTimers, Pulse("right", "touch"))
       ELSE /\ out' = <<>>
            /\ UNCHANGED <<longPressFired, pulseTimers>>
    /\ obs' = ObsSent(obs, out')
    /\ UNCHANGED <<envVars, zoomVars, mode, enabled, absPos, relTouchStart,
                   touchStartTime, touchStartPos, touchMoved, lastTapTime, lastTapPos,
                   singleTapTimer, isDragging, dragHoldTimer, isSecondTapDown,
                   TwoFingerFrame>>
    /\ Channel
    /\ ScrollIdle
    /\ SensitivityKept
    /\ ResolutionKept
    /\ HeldTracked
    /\ PendTracked(FALSE)

\* The deferred single-tap click (lines 410-416)
SingleTapFire ==
    /\ singleTapTimer = now
    /\ singleTapTimer' = NoTimer
    /\ out' = <<BtnEv("left", TRUE)>>
    /\ pulseTimers' = Append(pulseTimers, Pulse("left", "deferred"))
    /\ lastTapTime' = 0
    /\ lastTapPos' = NoPos
    /\ obs' = IF now \in obs.owed
              THEN [obs EXCEPT !.owed = @ \ {now}]
              ELSE [obs EXCEPT !.extra = Capped(@ + 1)]
    /\ UNCHANGED <<envVars, zoomVars, mode, enabled, absPos, relTouchStart,
                   touchStartTime, touchStartPos, touchMoved, longPressTimer,
                   longPressFired, isDragging, dragHoldTimer, isSecondTapDown,
                   TwoFingerFrame>>
    /\ Channel
    /\ ScrollIdle
    /\ SensitivityKept
    /\ ResolutionKept
    /\ HeldTracked
    /\ PendTracked(FALSE)

\* A button-release timeout: () => this._ws.sendMouseButton(button, false)
PulseFire(i) ==
    LET pt == pulseTimers[i]
    IN
    /\ pt.at = now
    /\ pulseTimers' = RemoveAt(pulseTimers, i)
    /\ out' = <<BtnEv(pt.b, FALSE)>>
    /\ obs' = IF pt.src # "touch" THEN obs
              ELSE IF pt.b = "left"
              THEN (IF obs.oldL > 0 THEN [obs EXCEPT !.oldL = @ - 1]
                    ELSE [obs EXCEPT !.lu = Capped(@ + 1)])
              ELSE (IF obs.oldR > 0 THEN [obs EXCEPT !.oldR = @ - 1]
                    ELSE [obs EXCEPT !.ru = Capped(@ + 1)])
    /\ UNCHANGED <<envVars, zoomVars, mode, enabled, absPos, relTouchStart,
                   touchStartTime, touchStartPos, touchMoved, lastTapTime, lastTapPos,
                   singleTapTimer, longPressTimer, longPressFired, isDragging,
                   dragHoldTimer, isSecondTapDown, TwoFingerFrame>>
    /\ Channel
    /\ ScrollIdle
    /\ SensitivityKept
    /\ ResolutionKept
    /\ HeldTracked
    /\ PendTracked(FALSE)

PulseFires == \E i \in DOMAIN pulseTimers : PulseFire(i)

\* The 10 ms interval (line 79): _sendPlannedMove() with a position pending
Flush ==
    /\ mode = "absolute"
    /\ absPos # NoPos
    /\ out' = PlannedOut(absPos)
    /\ absPos' = PlannedPos(absPos)
    /\ UNCHANGED <<envVars, zoomVars, obs, mode, enabled, relTouchStart,
                   touchStartTime, touchStartPos, touchMoved, lastTapTime, lastTapPos,
                   singleTapTimer, longPressTimer, longPressFired, isDragging,
                   dragHoldTimer, isSecondTapDown, TwoFingerFrame, pulseTimers>>
    /\ Channel
    /\ ScrollIdle
    /\ SensitivityKept
    /\ ResolutionKept
    /\ HeldTracked
    /\ PendTracked(FALSE)

\* Time passes.  Due callbacks have run and the 10 ms interval has flushed.
Tick ==
    /\ ~AnyDue
    /\ ~(mode = "absolute" /\ absPos # NoPos)
    /\ LET dt == Elapse
       IN  /\ phase' = (phase + dt) % TimeStep
           /\ sampled' = FALSE
           /\ touchStartTime' = Aged(touchStartTime, dt, TAP_MAX_DURATION)
           /\ lastTapTime' = Aged(lastTapTime, dt, DOUBLE_TAP_WINDOW)
           /\ twoFingerStartTime' = Aged(twoFingerStartTime, dt, TAP_MAX_DURATION)
           /\ singleTapTimer' = Nearer(singleTapTimer, dt)
           /\ longPressTimer' = Nearer(longPressTimer, dt)
           /\ dragHoldTimer' = Nearer(dragHoldTimer, dt)
           /\ pulseTimers' = [i \in DOMAIN pulseTimers |->
                                [pulseTimers[i] EXCEPT !.at = @ - dt]]
           /\ obs' = ObsAged(obs, dt)
    /\ out' = <<>>
    /\ UNCHANGED <<touches, gestures, zoomCalls, contacts, zoomVars, mode, enabled, absPos,
                   relTouchStart,
                   touchStartPos, touchMoved, lastTapPos, longPressFired,
                   isDragging, isSecondTapDown, twoFingerTapDetected,
                   twoFingerMoved, scrollAnchor>>
    /\ Channel
    /\ ScrollIdle
    /\ SensitivityKept
    /\ ResolutionKept
    /\ HeldTracked
    /\ PendTracked(FALSE)

-----------------------------------------------------------------------------
(* Touch events: ZoomController's capture listener, then MouseHandler's     *)

\* touchstart; n fingers are down afterwards, the first two at t0 and t1
EvTouchStart(n, t0, t1) ==
    /\ ~AnyDue
    /\ phase = 0 /\ ~sampled
    /\ n > touches
    /\ touches' = n
    /\ gestures' = IF n = 2 THEN gestures + 1 ELSE gestures
    /\ sampled' = TRUE
    /\ UNCHANGED <<phase, zoomCalls>>
    /\ ZoomTouchStart(n, t0, t1)
    /\ IF enabled /\ ~IsZoomGesture
       THEN MouseTouchStart(n, t0, t1)
       ELSE MouseIgnores
    /\ obs' = ObsSent(ObsZoom(ObsTwoStart(ObsStart(obs, n, TouchPos(t0)), n, t0, t1)),
                      out')
    /\ Channel
    /\ ScrollIdle
    /\ SensitivityKept
    /\ ResolutionKept
    /\ HeldTracked
    /\ PendTracked(FALSE)

\* touchmove with the fingers at t0 (and t1)
TouchMoveEvent(t0, t1) ==
    /\ ~AnyDue
    /\ touches >= 1
    /\ sampled' = TRUE
    /\ UNCHANGED <<phase, touches, gestures, zoomCalls>>
    /\ ZoomTouchMove(touches, t0, t1)
    /\ IF enabled /\ ~ZoomMoveStops(touches) /\ ~IsZoomGesture
       THEN MouseTouchMove(touches, t0, t1)
       ELSE MouseIgnores
    /\ obs' = ObsSent(ObsZoom(ObsTwoMove(ObsMid(ObsMove(obs, touches, TouchPos(t0)),
                                                touches, Midpoint(t0, t1)),
                                         touches, t0, t1)),
                      out')
    /\ Channel
    /\ ScrollIdle
    /\ SensitivityKept
    /\ ResolutionKept
    /\ HeldTracked
    /\ PendTracked(/\ enabled /\ ~ZoomMoveStops(touches) /\ ~IsZoomGesture
                   /\ touches = 1 /\ mode = "absolute")

\* ... sampled once per instant of the touch clock
EvTouchMove(t0, t1) ==
    /\ phase = 0 /\ ~sampled
    /\ TouchMoveEvent(t0, t1)

\* touchend; n fingers are left
TouchEndEvent(n) ==
    /\ ~AnyDue
    /\ n < touches
    /\ touches' = n
    /\ sampled' = TRUE
    /\ UNCHANGED <<phase, gestures, zoomCalls>>
    /\ ZoomTouchEnd(n)
    /\ IF enabled /\ ~ZoomEndStops(n) /\ ~IsZoomGesture
       THEN MouseTouchEnd(n)
       ELSE MouseIgnores
    /\ obs' = ObsTwoEnd(ObsEnd(ObsSent(ObsZoom(ObsUndecided(obs, n)), out'), n), n)
    /\ Channel
    /\ ScrollIdle
    /\ SensitivityKept
    /\ ResolutionKept
    /\ HeldTracked
    /\ PendTracked(FALSE)

\* ... sampled once per instant of the touch clock
EvTouchEnd(n) ==
    /\ phase = 0 /\ ~sampled
    /\ TouchEndEvent(n)

\* set mode(m), called with the mode the server reports when the session
\* connects; here, before the first touch
SetMode ==
    /\ touches = 0
    /\ obs.kind = "none"
    /\ \E m \in {"absolute", "relative"} : m # mode /\ mode' = m
    /\ out' = <<>>
    /\ UNCHANGED <<envVars, zoomVars, obs, enabled, absPos, relTouchStart,
                   touchStartTime, touchStartPos, touchMoved, lastTapTime, lastTapPos,
                   singleTapTimer, longPressTimer, longPressFired, isDragging,
                   dragHoldTimer, isSecondTapDown, TwoFingerFrame, pulseTimers>>
    /\ Channel
    /\ ScrollIdle
    /\ SensitivityKept
    /\ ResolutionKept
    /\ HeldTracked
    /\ PendTracked(FALSE)

-----------------------------------------------------------------------------
(* Initial state: after both constructors *)

\* MouseHandler, ZoomController and KvmdWebSocket after construction
InitStream ==
    /\ phase = 0
    /\ sampled = FALSE
    /\ touches = 0
    /\ gestures = 0
    /\ zoomCalls = 0
    /\ contacts = 0
    /\ resolution = [realWidth |-> ViewW, realHeight |-> ViewH]
    /\ held = [left |-> FALSE, right |-> FALSE]
    /\ pend = [moves |-> 0, sentFor |-> 0]
    /\ mode = "absolute"
    /\ enabled = TRUE
    /\ sensitivity = RInt(DefaultSensitivity)
    /\ scrollSensitivity = DefaultScrollSensitivity
    /\ absPos = NoPos
    /\ relTouchStart = NoPos
    /\ touchStartTime = 0
    /\ touchStartPos = NoPos
    /\ touchMoved = FALSE
    /\ lastTapTime = 0
    /\ lastTapPos = NoPos
    /\ singleTapTimer = NoTimer
    /\ longPressTimer = NoTimer
    /\ longPressFired = FALSE
    /\ isDragging = FALSE
    /\ dragHoldTimer = NoTimer
    /\ isSecondTapDown = FALSE
    /\ twoFingerTapDetected = FALSE
    /\ twoFingerStartTime = 0
    /\ twoFingerMoved = FALSE
    /\ scrollAnchor = NoPos
    /\ pulseTimers = <<>>
    /\ zoomed = FALSE
    /\ scale = R1
    /\ translateX = R0
    /\ translateY = R0
    /\ isPanning = FALSE
    /\ panStartMidX = 0
    /\ panStartMidY = 0
    /\ panStartTX = R0
    /\ panStartTY = R0
    /\ pinchStartDist = 0
    /\ pinchStartScale = R1
    /\ pinchStartTX = R0
    /\ pinchStartTY = R0
    /\ pinchFocalX = R0
    /\ pinchFocalY = R0
    /\ isPinching = FALSE
    /\ gestureUndecided = FALSE
    /\ isScroll = FALSE
    /\ undecidedMidX = 0
    /\ undecidedMidY = 0
    /\ shownZoomed = FALSE
    /\ connected = TRUE
    /\ wire = <<>>
    /\ socket = Socket0
    /\ out = <<>>
    /\ obs = Obs0

\* ScrollWidget after construction, with nothing in localStorage
InitWidget ==
    /\ preset = "normal"
    /\ macMode = FALSE
    /\ centerY = 0
    /\ trackHalf = 0
    /\ displacement = 0
    /\ direction = 0
    /\ active = FALSE
    /\ repeatTimer = NoTimer
    /\ repeatStartTime = 0
    /\ tickCount = 0
    /\ burstTimers = <<>>
    /\ presetChanges = 0
    /\ ticked = FALSE
    /\ chains = 0

Init == InitStream /\ InitWidget

-----------------------------------------------------------------------------
(* Single-finger gestures: one finger at a time on the stream surface,      *)
(* MouseHandler enabled, in either mode.                                    *)

\* Screen points of the single finger.  The first two are exactly 10 px
\* apart (not beyond the tap threshold); the last two are 16 px apart (beyond
\* it, within double-tap reach); the first and the last are more than 20 px
\* apart (out of double-tap reach).
Points == {Pt(100, 100), Pt(106, 108), Pt(122, 108)}

TapTouchStart ==
    /\ touches = 0
    /\ \E p \in Points : EvTouchStart(1, p, p)
    /\ UNCHANGED contacts
TapTouchMove ==
    /\ touches = 1
    /\ \E p \in Points : EvTouchMove(p, p)
    /\ UNCHANGED contacts
TapTouchEnd ==
    /\ touches = 1
    /\ EvTouchEnd(0)
    /\ UNCHANGED contacts

NextTap ==
    \/ SetMode
    \/ TapTouchStart
    \/ TapTouchMove
    \/ TapTouchEnd
    \/ DragHoldFire
    \/ LongPressFire
    \/ SingleTapFire
    \/ PulseFires
    \/ Flush
    \/ Tick

SpecTap == Init /\ [][NextTap]_vars

\* Values the settings slider hands to the sensitivity setter (0 stands for
\* any value parseFloat turns into 0 or NaN)
SensitivityInputs == {R0, <<1, 16>>, <<3, 4>>, <<10, 1>>, <<-10, 1>>}

\* set sensitivity(v): this._sensitivity = parseFloat(v) || 1
SetSensitivity ==
    /\ ~AnyDue
    /\ phase = 0
    /\ \E v \in SensitivityInputs :
          LET parsed == IF v = R0 THEN RInt(DefaultSensitivity) ELSE v
          IN  parsed # sensitivity /\ sensitivity' = parsed
    /\ UNCHANGED scrollSensitivity
    /\ out' = <<>>
    /\ UNCHANGED <<envVars, zoomVars, obs, mode, enabled, absPos, relTouchStart,
                   touchStartTime, touchStartPos, touchMoved, lastTapTime, lastTapPos,
                   singleTapTimer, longPressTimer, longPressFired, isDragging,
                   dragHoldTimer, isSecondTapDown, TwoFingerFrame, pulseTimers>>
    /\ Channel
    /\ ScrollIdle
    /\ ResolutionKept
    /\ HeldTracked
    /\ PendTracked(FALSE)

\* Single-finger gestures with the sensitivity slider in use
NextRelative ==
    \/ SetSensitivity
    \/ NextTap

SpecRelative == Init /\ [][NextRelative]_vars

-----------------------------------------------------------------------------
(* Absolute positioning over a letterboxed stream: one finger, absolute     *)
(* mode, the remote resolution changing.                                    *)

\* Remote resolutions: the aspect ratio of the view (no letterbox), 1:1
\* (bars of 100 px left and right), 8:3 (bars of 150 px above and below)
StreamSizes == {[realWidth |-> ViewW, realHeight |-> ViewH],
                [realWidth |-> 600, realHeight |-> 600],
                [realWidth |-> 1600, realHeight |-> 600]}

\* Screen points of the finger: the corners of the view, the first and the
\* last displayed pixel of the letterboxed streams, and the centre
AbsPoints == {Pt(0, 0), Pt(100, 150), Pt(400, 300), Pt(699, 449), Pt(799, 599)}

\* The stream reports another resolution (videoWidth / naturalWidth change)
SetResolution ==
    /\ ~AnyDue
    /\ phase = 0
    /\ \E res \in StreamSizes : res # resolution /\ resolution' = res
    /\ out' = <<>>
    /\ UNCHANGED <<envVars, zoomVars, obs, mouseVars>>
    /\ Channel
    /\ ScrollIdle
    /\ HeldTracked
    /\ PendTracked(FALSE)

AbsTouchStart ==
    /\ touches = 0
    /\ \E p \in AbsPoints : EvTouchStart(1, p, p)
    /\ UNCHANGED contacts
AbsTouchMove ==
    /\ touches = 1
    /\ \E p \in AbsPoints : EvTouchMove(p, p)
    /\ UNCHANGED contacts

NextAbsolute ==
    \/ SetResolution
    \/ AbsTouchStart
    \/ AbsTouchMove
    \/ TapTouchEnd
    \/ DragHoldFire
    \/ LongPressFire
    \/ PulseFires
    \/ Flush
    \/ Tick

\* (the deferred single-tap click is armed in relative mode only)
SpecAbsolute == Init /\ [][NextAbsolute]_vars

-----------------------------------------------------------------------------
(* Absolute mode: touch-moves arriving faster than the 10 ms interval, and   *)
(* the buttons of the mouse panel.                                           *)

\* Touch-moves that may write the pending position before it is sent
MaxUnsent == 2

\* Where the finger is seen here: two places of the stream, 670 px apart
PendPoints == {Pt(100, 150), Pt(699, 449)}

PendTouchStart ==
    /\ touches = 0
    /\ \E p \in PendPoints : EvTouchStart(1, p, p)
    /\ UNCHANGED contacts
PendTouchMove ==
    /\ touches = 1
    /\ \E p \in PendPoints : EvTouchMove(p, p)
    /\ UNCHANGED contacts

\* A further touchmove arrives before the interval has sent the position the
\* previous one left pending
MoveAgain ==
    /\ touches = 1
    /\ phase = 0 /\ sampled
    /\ absPos # NoPos
    /\ pend.moves < MaxUnsent
    /\ \E p \in PendPoints : TouchMoveEvent(p, p)
    /\ UNCHANGED contacts

\* The finger lifts before the interval has sent the position its last
\* touchmove left pending
LiftAtOnce ==
    /\ touches = 1
    /\ phase = 0 /\ sampled
    /\ absPos # NoPos
    /\ TouchEndEvent(0)
    /\ UNCHANGED contacts

\* Variant of sendButton: the button frame first, the pending position after
SendButtonFirst ==
    /\ ~AnyDue
    /\ phase = 0
    /\ \E button \in {"left", "right"}, state \in BOOLEAN :
          out' = <<BtnEv(button, state)>> \o PlannedOut(absPos)
    /\ absPos' = PlannedPos(absPos)
    /\ UNCHANGED <<envVars, zoomVars, obs, mode, enabled, relTouchStart,
                   touchStartTime, touchStartPos, touchMoved, lastTapTime, lastTapPos,
                   singleTapTimer, longPressTimer, longPressFired, isDragging,
                   dragHoldTimer, isSecondTapDown, TwoFingerFrame, pulseTimers>>
    /\ Channel
    /\ ScrollIdle
    /\ SensitivityKept
    /\ ResolutionKept
    /\ UNCHANGED held
    /\ PendTracked(FALSE)

\* sendButton(button, state), called by the buttons of the mouse panel
SendButton ==
    /\ ~AnyDue
    /\ phase = 0
    /\ \E button \in {"left", "right"}, state \in BOOLEAN :
          out' = PlannedOut(absPos) \o <<BtnEv(button, state)>>
    /\ absPos' = PlannedPos(absPos)
    /\ UNCHANGED <<envVars, zoomVars, obs, mode, enabled, relTouchStart,
                   touchStartTime, touchStartPos, touchMoved, lastTapTime, lastTapPos,
                   singleTapTimer, longPressTimer, longPressFired, isDragging,
                   dragHoldTimer, isSecondTapDown, TwoFingerFrame, pulseTimers>>
    /\ Channel
    /\ ScrollIdle
    /\ SensitivityKept
    /\ ResolutionKept
    /\ UNCHANGED held
    /\ PendTracked(FALSE)

NextPending ==
    \/ PendTouchStart
    \/ PendTouchMove
    \/ MoveAgain
    \/ TapTouchEnd
    \/ LiftAtOnce
    \/ SendButton
    \/ DragHoldFire
    \/ LongPressFire
    \/ PulseFires
    \/ Flush
    \/ Tick

SpecPending == Init /\ [][NextPending]_vars

\* Time since the current (or last) contact sequence began, up to 550 ms
SinceStart == now - obs.startT
\* The single finger has not been more than 10 px from its start position
\* during the first ms milliseconds of the touch
StillFor(ms) == obs.movedAt = 0 \/ obs.movedAt - 1 >= ms
\* The sequence is over and lasted less than ms milliseconds
LiftedBefore(ms) == obs.endT # 0 /\ obs.heldFor < ms
\* The sequence is a single finger's, and began as a second tap
SecondTouch == obs.kind = "second" /\ obs.single
\* The sequence is a single finger's, and did not begin as a second tap
FirstTouch == obs.kind = "first" /\ obs.single

\* C1: a second touch (within 300 ms and 20 px of a tap) that stays down for
\* 200 ms without moving more than 10 px enters drag exactly once.  Before the
\* drag-hold timer fires no left button event is sent; once it has fired
\* exactly one left-button-down has been sent and none is added by later
\* movement; when the finger has lifted exactly one left-button-up has been
\* sent and the drag is over.  Both modes.
C1_DragExactlyOnce ==
    (SecondTouch /\ StillFor(DRAG_HOLD_DELAY) /\ ~LiftedBefore(DRAG_HOLD_DELAY)) =>
        /\ (SinceStart < DRAG_HOLD_DELAY /\ obs.endT = 0) =>
              (obs.ld = 0 /\ obs.lu = 0 /\ ~isDragging)
        /\ (SinceStart >= DRAG_HOLD_DELAY /\ dragHoldTimer # now /\ obs.endT = 0) =>
              (obs.ld = 1 /\ obs.lu = 0 /\ isDragging)
        /\ (obs.endT # 0) =>
              (obs.ld = 1 /\ obs.lu = 1 /\ ~isDragging /\ dragHoldTimer = NoTimer)

\* A held second touch that moved after the drag began and has lifted
C1_Witness ==
    /\ SecondTouch
    /\ obs.movedAt - 1 >= DRAG_HOLD_DELAY
    /\ obs.endT # 0
    /\ obs.ld = 1 /\ obs.lu = 1

\* C2: a single-finger touch that is not a second tap and stays down for
\* 500 ms without moving more than 10 px sends exactly one right-button-down
\* (when the long-press timer fires) and exactly one right-button-up 50 ms
\* later; a touch that moves more than 10 px or lifts before 500 ms sends no
\* right-button event, wherever the finger goes afterwards.
C2_LongPress ==
    FirstTouch =>
        /\ (StillFor(LONG_PRESS_DELAY) /\ ~LiftedBefore(LONG_PRESS_DELAY)) =>
              /\ SinceStart < LONG_PRESS_DELAY => (obs.rd = 0 /\ obs.ru = 0)
              /\ (SinceStart >= LONG_PRESS_DELAY /\ longPressTimer # now) => obs.rd = 1
              /\ SinceStart < LONG_PRESS_DELAY + PULSE_DELAY => obs.ru = 0
              /\ (SinceStart >= LONG_PRESS_DELAY + PULSE_DELAY /\ ~PulseDue) => obs.ru = 1
        /\ (~StillFor(LONG_PRESS_DELAY) \/ LiftedBefore(LONG_PRESS_DELAY)) =>
              (obs.rd = 0 /\ obs.ru = 0)

\* A long press whose right-button pulse is complete
C2_Witness ==
    /\ FirstTouch
    /\ StillFor(LONG_PRESS_DELAY)
    /\ obs.rd = 1 /\ obs.ru = 1

\* C3: in relative mode, every tap that is not followed by its second tap has
\* been answered by a deferred click once its 300 ms double-tap window is
\* over: no tap's click is overdue.
C3_EveryTapClicks ==
    mode = "relative" => \A d \in obs.owed : d >= now

\* The sequence was a tap and is over
TapDone == FirstTouch /\ obs.movedAt = 0 /\ LiftedBefore(TAP_MAX_DURATION)

\* C4: in absolute mode, after a single tap and until the next touch, no
\* button event has been sent for it, no timer is left that would send one,
\* and the tap's time and position are recorded for double-tap matching.
C4_AbsoluteTapSilent ==
    (mode = "absolute" /\ TapDone) =>
        /\ obs.ld = 0 /\ obs.lu = 0 /\ obs.rd = 0 /\ obs.ru = 0
        /\ obs.extra = 0
        /\ singleTapTimer = NoTimer
        /\ longPressTimer = NoTimer
        /\ dragHoldTimer = NoTimer
        /\ lastTapPos = obs.startP
        /\ lastTapTime = obs.prevTap.t
        /\ obs.endT = now => lastTapTime = now

\* An absolute-mode tap, 50 ms after its release
C4_Witness ==
    /\ mode = "absolute"
    /\ TapDone
    /\ obs.endT # now
    /\ lastTapTime # 0

\* The sequence was the second tap of a double tap and is over
DoubleTapDone ==
    SecondTouch /\ obs.movedAt = 0 /\ LiftedBefore(DRAG_HOLD_DELAY)

\* C5: a double tap sends exactly one left-button-down and, 50 ms later,
\* exactly one left-button-up, and no right-button event; the first tap's
\* deferred click and the drag-hold timer are cancelled; the double-tap
\* linkage is cleared, so the next touch is not taken for a second tap.
C5_DoubleTap ==
    /\ DoubleTapDone =>
          /\ obs.ld = 1 /\ obs.rd = 0 /\ obs.ru = 0
          /\ obs.endT = now => obs.lu = 0
          /\ (obs.endT # now /\ ~PulseDue) => obs.lu = 1
          /\ obs.extra = 0
          /\ singleTapTimer = NoTimer
          /\ dragHoldTimer = NoTimer
          /\ ~isDragging
          /\ lastTapTime = 0
    /\ (touches = 1 /\ FirstTouch) => ~isSecondTapDown
    /\ (touches = 1 /\ SecondTouch) => (isSecondTapDown \/ isDragging)

\* A relative-mode double tap whose click is complete
C5_Witness ==
    /\ mode = "relative"
    /\ DoubleTapDone
    /\ obs.lu = 1

-----------------------------------------------------------------------------
(* Both recognizers: up to two fingers on the stream surface, every touch    *)
(* event handled by ZoomController and then, unless stopped, MouseHandler.   *)

\* Where the only or first finger of a one-finger event is
OnePoint == Pt(80, 100)
\* Where the finger that is left of two may move to: 20 px from OnePoint
LeftPoints == {OnePoint, Pt(100, 100)}

\* Finger pairs: a start pair; the midpoint 8 px to the right (beyond
\* MouseHandler's dead zone, within ZoomController's threshold); the fingers
\* 40 px further apart; the midpoint 20 px to the right
Pairs == {Fingers(40, Pt(100, 100)), Fingers(40, Pt(108, 100)),
          Fingers(80, Pt(100, 100)), Fingers(40, Pt(120, 100))}

\* A touch-start begins a contact sequence if no finger was down
Begun == IF touches = 0 THEN contacts + 1 ELSE contacts

OneTouchStart ==
    /\ touches = 0
    /\ contacts < MaxContacts
    /\ EvTouchStart(1, OnePoint, OnePoint)
    /\ contacts' = Begun
TwoTouchStart ==
    /\ touches < 2
    /\ touches = 0 => contacts < MaxContacts
    /\ gestures < MaxJointGestures
    /\ \E f \in Pairs : EvTouchStart(2, f[1], f[2])
    /\ contacts' = Begun
OneTouchMove ==
    /\ touches = 1
    /\ \E p \in (IF obs.single THEN {OnePoint} ELSE LeftPoints) : EvTouchMove(p, p)
    /\ UNCHANGED contacts
TwoTouchMove ==
    /\ touches = 2
    /\ \E f \in Pairs : EvTouchMove(f[1], f[2])
    /\ UNCHANGED contacts
SomeTouchEnd ==
    /\ \E n \in 0..1 : EvTouchEnd(n)
    /\ UNCHANGED contacts

Next ==
    \/ SetMode
    \/ OneTouchStart
    \/ TwoTouchStart
    \/ OneTouchMove
    \/ TwoTouchMove
    \/ SomeTouchEnd
    \/ DragHoldFire
    \/ LongPressFire
    \/ SingleTapFire
    \/ PulseFires
    \/ Flush
    \/ Tick

Spec == Init /\ [][Next]_vars

-----------------------------------------------------------------------------
(* Two-finger scroll: two fingers a constant 40 px apart, the midpoint       *)
(* moving on both axes, with the scroll sensitivity set from the settings.   *)

\* Values the settings slider hands to the scroll-sensitivity setter (0
\* stands for any value parseFloat turns into 0 or NaN)
ScrollSensitivityInputs == {0, 1, 3}

\* set scrollSensitivity(v): this._scrollSensitivity = parseFloat(v) || 2
SetScrollSensitivity ==
    /\ ~AnyDue
    /\ phase = 0
    /\ \E v \in ScrollSensitivityInputs :
          LET parsed == IF v = 0 THEN DefaultScrollSensitivity ELSE v
          IN  parsed # scrollSensitivity /\ scrollSensitivity' = parsed
    /\ out' = <<>>
    /\ UNCHANGED <<envVars, zoomVars, obs, mode, enabled, sensitivity, absPos,
                   relTouchStart, touchStartTime, touchStartPos, touchMoved,
                   lastTapTime, lastTapPos, singleTapTimer, longPressTimer,
                   longPressFired, isDragging, dragHoldTimer, isSecondTapDown,
                   TwoFingerFrame, pulseTimers>>
    /\ Channel
    /\ ScrollIdle
    /\ ResolutionKept
    /\ HeldTracked
    /\ PendTracked(FALSE)

\* Midpoints of the two fingers: 5 px and 6 px apart on either axis (at and
\* beyond the dead zone), and 6 px away on both
WheelMids == {Pt(100, 100), Pt(105, 100), Pt(106, 100), Pt(100, 106), Pt(94, 94)}
WheelPairs == {Fingers(40, m) : m \in WheelMids}

WheelTouchStart ==
    /\ touches = 0
    /\ contacts < MaxContacts
    /\ \E f \in WheelPairs : EvTouchStart(2, f[1], f[2])
    /\ contacts' = Begun
WheelTouchMove ==
    /\ touches = 2
    /\ \E f \in WheelPairs : EvTouchMove(f[1], f[2])
    /\ UNCHANGED contacts

NextWheel ==
    \/ SetMode
    \/ SetScrollSensitivity
    \/ WheelTouchStart
    \/ WheelTouchMove
    \/ SomeTouchEnd
    \/ PulseFires
    \/ Tick

\* (no single-finger timer is armed and no position is left pending here)
SpecWheel == Init /\ [][NextWheel]_vars

\* C6: at most one recognizer acts on a two-finger contact sequence.  From
\* the landing of the second finger until all fingers have lifted: if
\* ZoomController classified the sequence as pinch or pan, MouseHandler's
\* touch handlers sent no wheel frame and no button frame; and if a wheel
\* frame was sent, ZoomController did not change the viewport transform.
C6_OneRecognizer ==
    obs.twoT # 0 =>
        /\ obs.claimed => (obs.wheel = 0 /\ obs.btn2 = 0)
        /\ obs.wheel > 0 => ~obs.xform

-----------------------------------------------------------------------------
(* ZoomController alone.  Its listeners run in the capture phase, before     *)
(* MouseHandler's, and nothing in it reads MouseHandler's state; the zoom    *)
(* button of the top bar calls toggle().  Time plays no part in it.          *)

\* Finger pairs.  From the first: 40 px further apart, the midpoint in place
\* (beyond the distance threshold only); 40 px further apart and the
\* midpoint far away (beyond both).  Between the last two the distance is
\* the same and the midpoint far away (beyond the midpoint threshold only).
\* A move to the pair the fingers are at is within both thresholds.  The
\* fourth is the second with the fingers 4 px further apart: 84 / 80 = 1.05.
ZoomPairs == {Fingers(40, Pt(100, 300)),
              Fingers(80, Pt(100, 300)), Fingers(80, Pt(700, 500)),
              Fingers(84, Pt(100, 300))}

\* What getResolution() returns: nothing yet; the container's own size;
\* 2000x1500 (native scale 2.5); 3840x2160 (native scale 4.8)
Resolutions == {[realWidth |-> 0, realHeight |-> 0],
                [realWidth |-> ViewW, realHeight |-> ViewH],
                [realWidth |-> 2000, realHeight |-> 1500],
                [realWidth |-> 3840, realHeight |-> 2160]}

ZoomOnlyFrame == <<phase, sampled, contacts, mouseVars, out>>

\* touchstart, n fingers down afterwards
ZoomOnlyTouchStart ==
    \E n \in 1..IGNORED_FINGERS : \E f \in ZoomPairs :
        /\ n > touches
        /\ n = 2 => gestures < MaxGestures
        /\ touches' = n
        /\ gestures' = IF n = 2 THEN gestures + 1 ELSE gestures
        /\ ZoomTouchStart(n, f[1], f[2])
        /\ obs' = ObsTwoStart(obs, n, f[1], f[2])
        /\ UNCHANGED <<zoomCalls, ZoomOnlyFrame>>
        /\ Channel
        /\ ScrollIdle
        /\ ResolutionKept
        /\ HeldTracked
        /\ PendTracked(FALSE)

\* touchmove
ZoomOnlyTouchMove ==
    \E f \in ZoomPairs :
        /\ touches >= 1
        /\ ZoomTouchMove(touches, f[1], f[2])
        /\ obs' = ObsTwoMove(obs, touches, f[1], f[2])
        /\ UNCHANGED <<touches, gestures, zoomCalls, ZoomOnlyFrame>>
        /\ Channel
        /\ ScrollIdle
        /\ ResolutionKept
        /\ HeldTracked
        /\ PendTracked(FALSE)

\* touchend, n fingers left
ZoomOnlyTouchEnd ==
    \E n \in 0..(IGNORED_FINGERS - 1) :
        /\ n < touches
        /\ touches' = n
        /\ ZoomTouchEnd(n)
        /\ obs' = ObsTwoEnd(obs, n)
        /\ UNCHANGED <<gestures, zoomCalls, ZoomOnlyFrame>>
        /\ Channel
        /\ ScrollIdle
        /\ ResolutionKept
        /\ HeldTracked
        /\ PendTracked(FALSE)

ZoomCallFrame == <<phase, sampled, touches, gestures, contacts, mouseVars, out, obs>>

CallZoomToNative ==
    /\ zoomCalls < MaxZoomCalls
    /\ zoomCalls' = zoomCalls + 1
    /\ \E res \in Resolutions : ZoomToNative(res)
    /\ UNCHANGED ZoomCallFrame
    /\ Channel
    /\ ScrollIdle
    /\ SensitivityKept
    /\ ResolutionKept
    /\ HeldTracked
    /\ PendTracked(FALSE)

CallResetZoom ==
    /\ zoomCalls < MaxZoomCalls
    /\ zoomCalls' = zoomCalls + 1
    /\ ResetZoom
    /\ UNCHANGED ZoomCallFrame
    /\ Channel
    /\ ScrollIdle
    /\ SensitivityKept
    /\ ResolutionKept
    /\ HeldTracked
    /\ PendTracked(FALSE)

CallToggle ==
    /\ zoomCalls < MaxZoomCalls
    /\ zoomCalls' = zoomCalls + 1
    /\ \E res \in Resolutions : Toggle(res)
    /\ UNCHANGED ZoomCallFrame
    /\ Channel
    /\ ScrollIdle
    /\ SensitivityKept
    /\ ResolutionKept
    /\ HeldTracked
    /\ PendTracked(FALSE)

NextZoom ==
    \/ ZoomOnlyTouchStart
    \/ ZoomOnlyTouchMove
    \/ ZoomOnlyTouchEnd
    \/ CallZoomToNative
    \/ CallResetZoom
    \/ CallToggle

SpecZoom == Init /\ [][NextZoom]_vars

ZoomClass == <<gestureUndecided, isPinching, isScroll, isPanning>>
Decided == isPinching \/ isScroll \/ isPanning

\* C7: once the classification has left undecided, it is changed by no step
\* other than a touch-end that leaves fewer than two fingers, which clears
\* it; and a gesture becomes undecided only at a touch-start that makes it
\* two fingers.
C7_ClassificationFrozen ==
    [][/\ (Decided /\ ~(touches' < touches /\ touches' < 2)) =>
             ZoomClass' = ZoomClass
       /\ (Decided /\ touches' < touches /\ touches' < 2) =>
             ZoomClass' = <<FALSE, FALSE, FALSE, FALSE>>
       /\ (gestureUndecided' /\ ~gestureUndecided) =>
             (touches' = 2 /\ touches < 2)]_vars

\* Decided as scroll, after a later move with the fingers over 15 px further
\* apart than at the start
C7_Witness ==
    /\ touches = 2
    /\ isScroll
    /\ obs.distEver

\* C8: the first two-finger move that has the finger distance more than
\* 15 px from its value at touch-start, no earlier move having had the
\* midpoint more than 10 px from its start on either axis, makes the gesture
\* a pinch, wherever that move puts the midpoint.
C8_DistanceFirst ==
    [][(obs.d0 # 0 /\ ~obs.distEver /\ ~obs.midEver /\ obs'.distEver) =>
            ZoomClass' = <<FALSE, TRUE, FALSE, FALSE>>]_vars

\* Classified as pinch by a move that also displaced the midpoint by more
\* than 10 px, after an earlier move that decided nothing
C8_Witness ==
    /\ isPinching
    /\ obs.first15 = "both"
    /\ obs.early

\* C9: the scale is within [1, 4] in every reachable state.
C9_ScaleInRange ==
    RLe(RInt(MIN_SCALE), scale) /\ RLe(scale, RInt(MAX_SCALE))

\* C10: in every reachable state the translation is within
\* +/- viewport dimension x (scale - 1) / 2 on each axis.
C10_TranslateBound ==
    /\ RLe(RAbs(translateX), RDiv(RMul(RInt(ViewW), RSub(scale, R1)), RInt(2)))
    /\ RLe(RAbs(translateY), RDiv(RMul(RInt(ViewH), RSub(scale, R1)), RInt(2)))

\* A pinch that has reduced the scale while the view was panned to an edge:
\* the translation is at its (non-zero) bound for the reduced scale
C10_Witness ==
    /\ isPinching
    /\ RLt(scale, pinchStartScale)
    /\ RLt(R0, RAbs(translateX))
    /\ RAbs(translateX) = RDiv(RMul(RInt(ViewW), RSub(scale, R1)), RInt(2))
    /\ RAbs(pinchStartTX) = RDiv(RMul(RInt(ViewW), RSub(pinchStartScale, R1)), RInt(2))

\* clamp(v, 1, 4)
ClampScale(v) == IF RLt(v, R1) THEN R1 ELSE IF RLt(RInt(4), v) THEN RInt(4) ELSE v

\* C25: after every two-finger touch-move of a pinch (the move that
\* classifies it included) the scale is the scale at the two-finger
\* touch-start times the ratio of the current finger distance to the
\* distance at that touch-start, clamped to [1, 4], whatever the moves
\* before.
C25_PinchScale ==
    [][\A f \in ZoomPairs :
          (/\ touches = 2
           /\ ZoomTouchMove(2, f[1], f[2])
           /\ obs' = ObsTwoMove(obs, 2, f[1], f[2])
           /\ isPinching')
          => scale' = ClampScale(RMul(pinchStartScale, <<Dist(f[1], f[2]), obs.d0>>))
      ]_vars

\* A pinch that began zoomed and was classified after an earlier move: the
\* scale is strictly inside the range and is neither the start scale nor 1
C25_Witness ==
    /\ isPinching
    /\ touches = 2
    /\ obs.early
    /\ RLt(R1, pinchStartScale)
    /\ RLt(R1, scale)
    /\ RLt(scale, RInt(MAX_SCALE))
    /\ scale # pinchStartScale

\* 1 / fitScale for a source of resolution res: the larger of the two
\* ratios of source size to container size
InverseFit(res) ==
    IF res.realWidth * ViewH >= res.realHeight * ViewW
    THEN Norm(res.realWidth, ViewW)
    ELSE Norm(res.realHeight, ViewH)
\* The resolution is known and 1 / fitScale is above 1.05
Zoomable(res) ==
    /\ res.realWidth # 0 /\ res.realHeight # 0
    /\ RLt(SnapScale, InverseFit(res))
\* The step leaves the view reset / at the native scale of res, and has
\* told the callback so
LeavesReset ==
    /\ scale' = R1 /\ translateX' = R0 /\ translateY' = R0
    /\ ~zoomed' /\ ~shownZoomed'
LeavesNative(res) ==
    /\ scale' = InverseFit(res) /\ translateX' = R0 /\ translateY' = R0
    /\ zoomed' /\ shownZoomed'

TwoFingerTapDone == obs.endT # 0 /\ obs.still2 /\ obs.quick2

\* C13: in relative mode a two-finger tap sends exactly one right-button-down
\* (at the final lift) and one right-button-up 50 ms later, and no left-button
\* event, whether the fingers lift together or one after the other.
C13_TwoFingerTap ==
    (mode = "relative" /\ TwoFingerTapDone) =>
        /\ obs.rd = 1
        /\ obs.endT = now => obs.ru = 0
        /\ (obs.endT # now /\ ~PulseDue) => obs.ru = 1
        /\ obs.ld = 0 /\ obs.lu = 0
        /\ singleTapTimer = NoTimer

\* C14: a two-finger contact sequence for which MouseHandler sent a wheel
\* frame (no drag being in progress) gets no button frame from the touch
\* handlers, from the landing of the second finger to the final lift, and
\* leaves no deferred click behind: a deferred click that is pending is owed
\* to a single-finger tap.
C14_ScrollNeverClicks ==
    (obs.wheel > 0 /\ obs.ld = 0) =>
        /\ obs.btn2 = 0
        /\ singleTapTimer # NoTimer => singleTapTimer \in obs.owed

\* C15: a two-finger contact sequence (no drag being in progress) that drops
\* below two fingers while ZoomController has not classified it: no wheel
\* frame and no button frame was sent for it by the touch handlers, no
\* deferred click is left behind, and the viewport transform was not changed.
C15_UndecidedIsNoOp ==
    (obs.undec /\ obs.ld = 0) =>
        /\ obs.wheel = 0
        /\ obs.btn2 = 0
        /\ singleTapTimer # NoTimer => singleTapTimer \in obs.owed
        /\ ~obs.xform

\* No two-finger gesture is in progress
NoGesture == ~gestureUndecided /\ ~Decided

\* C11: whenever no two-finger gesture is in progress, ZoomController is
\* either zoomed (zoomed and scale > 1.05) or in the canonical unzoomed
\* state (not zoomed, scale 1, translation (0, 0)).
C11_ZoomedOrCanonical ==
    NoGesture =>
        \/ zoomed /\ RLt(SnapScale, scale)
        \/ ~zoomed /\ scale = R1 /\ translateX = R0 /\ translateY = R0

-----------------------------------------------------------------------------
(* MouseHandler suspended and resumed: the drawer opens (enabled = false)    *)
(* and closes (enabled = true) at any moment of a single-finger gesture.     *)

\* set enabled(v), called by the drawer's onOpen and onClose
SetEnabled ==
    /\ enabled' = ~enabled
    /\ out' = <<>>
    /\ UNCHANGED <<envVars, zoomVars, obs, mode, absPos, relTouchStart,
                   touchStartTime, touchStartPos, touchMoved, lastTapTime, lastTapPos,
                   singleTapTimer, longPressTimer, longPressFired, isDragging,
                   dragHoldTimer, isSecondTapDown, TwoFingerFrame, pulseTimers>>
    /\ Channel
    /\ ScrollIdle
    /\ SensitivityKept
    /\ ResolutionKept
    /\ HeldTracked
    /\ PendTracked(FALSE)

\* One finger at a time (up to MaxContacts contact sequences, begun by
\* OneTouchStart): it moves, and it lifts
SingleTouchMove ==
    /\ touches = 1
    /\ \E p \in LeftPoints : EvTouchMove(p, p)
    /\ UNCHANGED contacts
SingleTouchEnd ==
    /\ touches = 1
    /\ EvTouchEnd(0)
    /\ UNCHANGED contacts

NextSuspend ==
    \/ SetMode
    \/ SetEnabled
    \/ OneTouchStart
    \/ SingleTouchMove
    \/ SingleTouchEnd
    \/ DragHoldFire
    \/ LongPressFire
    \/ SingleTapFire
    \/ PulseFires
    \/ Flush
    \/ Tick

SpecSuspend == Init /\ [][NextSuspend]_vars

\* C16: while MouseHandler is disabled no HID frame is sent: every step taken
\* while it is disabled, timer callbacks included, sends nothing.
C16_DisabledIsSilent ==
    ~enabled => out = <<>>

-----------------------------------------------------------------------------
(* The channel closes and reopens during single-finger gestures and key      *)
(* presses.                                                                  *)

KeyEv(key, state) == [t |-> "key", b |-> key, s |-> state, x |-> 0, y |-> 0]

ChannelFrame == <<envVars, resolution, mouseVars, zoomVars, scrollVars, held, pend, obs>>

\* The socket leaves readyState OPEN (closed by either side, or _cleanup)
Disconnect ==
    /\ connected
    /\ connected' = FALSE
    /\ out' = <<>>
    /\ wire' = <<>>
    /\ UNCHANGED <<ChannelFrame, socket>>

\* The socket of _tryConnect opens; the "open" listeners send nothing
Connect ==
    /\ ~connected
    /\ connected' = TRUE
    /\ out' = <<>>
    /\ wire' = <<>>
    /\ UNCHANGED <<ChannelFrame, socket>>

\* The keyboard calls sendKey(key, state)
SendKey ==
    /\ \E state \in BOOLEAN : out' = <<KeyEv("KeyA", state)>>
    /\ UNCHANGED ChannelFrame
    /\ Channel

NextChannel ==
    \/ SetMode
    \/ Disconnect
    \/ Connect
    \/ SendKey
    \/ OneTouchStart
    \/ SingleTouchMove
    \/ SingleTouchEnd
    \/ DragHoldFire
    \/ LongPressFire
    \/ SingleTapFire
    \/ PulseFires
    \/ Flush
    \/ Tick

SpecChannel == Init /\ [][NextChannel]_vars

\* C17: while the channel is not connected nothing is passed to the socket,
\* whichever sender is called; what is passed to it in a step is what that
\* step handed to the senders, so nothing handed over while it was not
\* connected is sent later.
C17_NoSendWhenClosed ==
    /\ ~connected => wire = <<>>
    /\ connected => wire = out

\* A button frame handed to sendMouseButton while the channel is not connected
C17_Witness ==
    /\ ~connected
    /\ CountButton(out) > 0

-----------------------------------------------------------------------------
(* KvmdWebSocket (src/js/websocket.js): connect, disconnect, the socket's    *)
(* events, the ping interval and the reconnect timeout.  Handlers removed    *)
(* from a socket are not called; cleared timers do not fire.                 *)

MISSED_LIMIT == 15
\* Sockets let go of without being closed that are followed at once
MaxOrphans == 2

PingEv == [t |-> "ping", b |-> "", s |-> FALSE, x |-> 0, y |-> 0]

\* _cleanup(): both timers are cleared if set; the handlers are removed from
\* the socket and it is closed only if its readyState is OPEN
Cleanup(k) ==
    [k EXCEPT !.pings = IF k.pingTimer THEN @ - 1 ELSE @,
              !.pingTimer = FALSE,
              !.reconnects = IF k.reconnectTimer = "pending" THEN @ - 1 ELSE @,
              !.reconnectTimer = "none",
              !.orphans = IF k.sock = "connecting" THEN @ + 1 ELSE @,
              !.sock = "none"]

\* _scheduleReconnect()
ScheduleReconnect(k) ==
    LET c == Cleanup(k)
    IN  IF c.stopped THEN c
        ELSE [c EXCEPT !.reconnectTimer = "pending", !.reconnects = @ + 1]

\* _tryConnect()
TryConnect(k) ==
    IF k.stopped THEN k
    ELSE [Cleanup(k) EXCEPT !.sock = "connecting", !.made = TRUE]

\* The socket record at the beginning of a step
Entering == [socket EXCEPT !.made = FALSE]

\* A step of KvmdWebSocket that leaves the record k and sends the frames
SocketStep(k, frames) ==
    /\ socket' = k
    /\ connected' = (k.sock = "open")
    /\ out' = <<>>
    /\ wire' = frames
    /\ UNCHANGED ChannelFrame

\* The program may let go of another connecting socket
MayOrphan == socket.sock = "connecting" => socket.orphans < MaxOrphans

\* connect()
CallConnect ==
    /\ MayOrphan
    /\ SocketStep(TryConnect([Entering EXCEPT !.stopped = FALSE]), <<>>)

\* disconnect()
CallDisconnect ==
    /\ MayOrphan
    /\ SocketStep(Cleanup([Entering EXCEPT !.stopped = TRUE]), <<>>)

\* The socket opens: onopen
SocketOpens ==
    /\ socket.sock = "connecting"
    /\ SocketStep([Entering EXCEPT !.sock = "open",
                                   !.missedHeartbeats = 0,
                                   !.pingTimer = TRUE,
                                   !.pings = @ + 1], <<>>)

\* The connection fails or is closed by the peer; the event is queued
SocketBreaks ==
    /\ socket.sock \in {"connecting", "open"}
    /\ SocketStep([Entering EXCEPT !.sock = "closed"], <<>>)

\* The queued event is delivered: onerror / onclose
SocketEvent ==
    /\ socket.sock = "closed"
    /\ SocketStep(ScheduleReconnect(Entering), <<>>)

\* onmessage with a binary heartbeat (data[0] === 255)
Heartbeat ==
    /\ socket.sock = "open"
    /\ socket.missedHeartbeats # 0
    /\ SocketStep([Entering EXCEPT !.missedHeartbeats = 0], <<>>)

\* The ping interval runs _ping(): send throws on no socket and on a
\* connecting socket, and is a silent no-op on a closed one
PingFires ==
    /\ socket.pings > 0
    /\ LET k == [Entering EXCEPT !.missedHeartbeats = @ + 1]
       IN  IF k.missedHeartbeats >= MISSED_LIMIT \/ k.sock \in {"none", "connecting"}
           THEN SocketStep(ScheduleReconnect(k), <<>>)
           ELSE SocketStep(k, IF k.sock = "open" THEN <<PingEv>> ELSE <<>>)

\* The reconnect timeout runs _tryConnect()
ReconnectFires ==
    /\ socket.reconnects > 0
    /\ MayOrphan
    /\ SocketStep(TryConnect([Entering EXCEPT
                                 !.reconnects = @ - 1,
                                 !.reconnectTimer =
                                     IF @ = "pending" THEN "spent" ELSE @]), <<>>)

\* A socket the program let go of fails or is closed by the peer
OrphanEnds ==
    /\ socket.orphans > 0
    /\ SocketStep([Entering EXCEPT !.orphans = @ - 1], <<>>)

NextSocket ==
    \/ CallConnect
    \/ CallDisconnect
    \/ SocketOpens
    \/ SocketBreaks
    \/ SocketEvent
    \/ Heartbeat
    \/ PingFires
    \/ ReconnectFires
    \/ OrphanEnds

SpecSocket == Init /\ [][NextSocket]_vars

-----------------------------------------------------------------------------
(* ScrollWidget (src/js/ui/mouse-panel.js), the jog-shuttle strip.  Its      *)
(* listeners are on the widget's own element and stop the propagation, so    *)
(* MouseHandler and ZoomController see none of its touches.  ev.touches      *)
(* holds every finger on the screen; ev.touches[0] is the oldest of them.    *)

\* Number of settings changes (preset, macOS mode) explored.
MaxPresetChanges == 2

PRESETS ==
    [fine   |-> [deadZone |-> 18, firstTick |-> 35, minInterval |-> 200, units |-> 1],
     normal |-> [deadZone |-> 12, firstTick |-> 25, minInterval |-> 150, units |-> 2],
     fast   |-> [deadZone |-> 8,  firstTick |-> 18, minInterval |-> 100, units |-> 4]]
PresetNames == DOMAIN PRESETS

MAX_INTERVAL == 300
RAMP_DURATION == 1000
MAC_UNIT_MULTIPLIER == 3
MAC_BURST_COUNT == 3
MAC_BURST_DELAY == 10

\* this._widget.getBoundingClientRect(): top and height of the strip
WidgetTop == 200
WidgetHeight == 200
\* rect.height / 2 - 16
ThumbInset == 16

Max(a, b) == IF a < b THEN b ELSE a
Min(a, b) == IF a < b THEN a ELSE b

\* a < b for rationals a, b >= 0, by their continued fractions: the products
\* of RLt would leave the 32-bit range for the intervals below
RECURSIVE FracLt(_, _, _, _)
FracLt(n1, d1, n2, d2) ==
    IF n1 \div d1 # n2 \div d2 THEN n1 \div d1 < n2 \div d2
    ELSE IF n1 % d1 = 0 THEN n2 % d2 # 0
    ELSE IF n2 % d2 = 0 THEN FALSE
    ELSE FracLt(d2, n2 % d2, d1, n1 % d1)
\* Math.min of two non-negative numbers
MinInterval(a, b) == IF FracLt(b[1], b[2], a[1], a[2]) THEN b ELSE a

\* _getPreset()
GetPreset == IF preset \in PresetNames THEN PRESETS[preset] ELSE PRESETS.normal

\* _computeInterval() at displacement disp, the repeat begun at time start
ComputeInterval(p, half, disp, start) ==
    LET absDist == Abs(disp)
        range == half - p.firstTick
        span == RInt(MAX_INTERVAL - p.minInterval)
        ratio == IF range > 0
                 THEN RMin(R1, Norm(absDist - p.firstTick, range))
                 ELSE R0
        distRatio == RMul(ratio, ratio)
        distInterval == RSub(RInt(MAX_INTERVAL), RMul(distRatio, span))
        elapsed == now - start
        timeLin == RMin(R1, Norm(elapsed, RAMP_DURATION))
        timeRatio == RMul(timeLin, timeLin)
        timeInterval == RSub(RInt(MAX_INTERVAL), RMul(timeRatio, span))
    IN  RMax(RInt(p.minInterval), MinInterval(distInterval, timeInterval))

\* setTimeout(fn, interval): the delay is converted to a whole number of ms
TimeoutAt(interval) == now + RFloor(interval)

\* _fireTick(): what it hands to sendMouseWheel at once, and the timeouts of
\* the macOS burst it leaves behind
\* Variant: the units of the preset, whatever the direction
TickUnitsDown(dir, p) == p.units
TickUnits(dir, p) == dir * p.units
TickFrames(dir, p) ==
    IF macMode
    THEN <<WheelEv(0, TickUnits(dir, p) * MAC_UNIT_MULTIPLIER)>>
    ELSE <<WheelEv(0, TickUnits(dir, p))>>
TickBurst(dir, p) ==
    IF macMode
    THEN [i \in 1..(MAC_BURST_COUNT - 1) |->
            [at |-> now + i * MAC_BURST_DELAY,
             dy |-> TickUnits(dir, p) * MAC_UNIT_MULTIPLIER]]
    ELSE <<>>

\* Variant: a direction reversal leaves the repeat timer alone
ReversalTimerKept(reversed, timer) == timer
\* `if (newDir !== this._direction) { ... this._stopRepeat(); }'
ReversalTimer(reversed, timer) == IF reversed THEN NoTimer ELSE timer

\* _stopRepeat(): how many pending timeouts it clears
Cleared(timer) == IF timer # NoTimer THEN 1 ELSE 0

\* Variant: auto-repeat is started whether or not a timeout is pending
MayStartRepeatAlways(timer) == TRUE
\* `!this._repeatTimer' (line 329)
MayStartRepeat(timer) == timer = NoTimer

\* _updateFromTouch(clientY), with the centre and half-track of the current
\* touch and the tick count tc the caller left
UpdateFromTouch(clientY, cy, half, tc) ==
    LET raw == clientY - cy
        clamped == Max(-half, Min(half, raw))
        p == GetPreset
        absDist == Abs(clamped)
        newDir == IF clamped > 0 THEN 1 ELSE -1
        reversed == newDir # direction
        timer1 == ReversalTimer(reversed, repeatTimer)
        tc1 == IF reversed THEN 0 ELSE tc
    IN
    /\ displacement' = clamped
    /\ IF absDist < p.deadZone
       THEN /\ repeatTimer' = NoTimer
            /\ chains' = chains - Cleared(repeatTimer)
            /\ direction' = 0
            /\ tickCount' = tc
            /\ out' = <<>>
            /\ ticked' = FALSE
            /\ UNCHANGED <<repeatStartTime, burstTimers>>
       ELSE /\ direction' = newDir
            /\ IF absDist >= p.firstTick /\ MayStartRepeat(timer1)
               THEN /\ out' = TickFrames(newDir, p)
                    /\ chains' = chains - (Cleared(repeatTimer) - Cleared(timer1)) + 1
                    /\ ticked' = TRUE
                    /\ burstTimers' = burstTimers \o TickBurst(newDir, p)
                    /\ tickCount' = Capped(tc1 + 1)
                    /\ repeatStartTime' = now
                    /\ repeatTimer' = TimeoutAt(ComputeInterval(p, half, clamped, now))
               ELSE /\ out' = <<>>
                    /\ ticked' = FALSE
                    /\ tickCount' = tc1
                    /\ repeatTimer' = timer1
                    /\ chains' = chains - (Cleared(repeatTimer) - Cleared(timer1))
                    /\ UNCHANGED <<repeatStartTime, burstTimers>>

ScrollFrame == <<resolution, mouseVars, zoomVars, held, pend, obs, gestures, zoomCalls>>

BurstDue == \E i \in DOMAIN burstTimers : burstTimers[i].at = now
ScrollAnyDue == repeatTimer = now \/ BurstDue

\* _handleTouchStart: the n-th finger lands; ev.touches[0] is at clientY
ScrollTouchStart(n, clientY) ==
    /\ ~ScrollAnyDue
    /\ phase = 0 /\ ~sampled
    /\ n = touches + 1
    /\ touches = 0 => contacts < MaxContacts
    /\ contacts' = Begun
    /\ touches' = n
    /\ sampled' = TRUE
    /\ IF n # 1
       THEN /\ out' = <<>>
            /\ ticked' = FALSE
            /\ UNCHANGED <<centerY, trackHalf, displacement, direction, active,
                           repeatTimer, repeatStartTime, tickCount, burstTimers,
                           chains>>
       ELSE LET cy == WidgetTop + WidgetHeight \div 2
                half == WidgetHeight \div 2 - ThumbInset
            IN  /\ centerY' = cy
                /\ trackHalf' = half
                /\ active' = TRUE
                /\ UpdateFromTouch(clientY, cy, half, 0)
    /\ UNCHANGED <<ScrollFrame, phase, preset, macMode, presetChanges>>
    /\ Channel

\* _handleTouchMove: ev.touches[0] is at clientY
ScrollTouchMove(clientY) ==
    /\ ~ScrollAnyDue
    /\ phase = 0 /\ ~sampled
    /\ touches >= 1
    /\ sampled' = TRUE
    /\ IF ~active
       THEN /\ out' = <<>>
            /\ ticked' = FALSE
            /\ UNCHANGED <<displacement, direction, repeatTimer, repeatStartTime,
                           tickCount, burstTimers, chains>>
       ELSE UpdateFromTouch(clientY, centerY, trackHalf, tickCount)
    /\ UNCHANGED <<ScrollFrame, phase, touches, contacts, preset, macMode,
                   presetChanges, centerY, trackHalf, active>>
    /\ Channel

\* _handleTouchEnd (touchend and touchcancel): n fingers stay on the screen
ScrollTouchEnd(n) ==
    /\ ~ScrollAnyDue
    /\ phase = 0 /\ ~sampled
    /\ n < touches
    /\ touches' = n
    /\ sampled' = TRUE
    /\ active' = FALSE
    /\ displacement' = 0
    /\ direction' = 0
    /\ repeatTimer' = NoTimer
    /\ chains' = chains - Cleared(repeatTimer)
    /\ out' = <<>>
    /\ ticked' = FALSE
    /\ UNCHANGED <<ScrollFrame, phase, contacts, preset, macMode, presetChanges,
                   centerY, trackHalf, repeatStartTime, tickCount, burstTimers>>
    /\ Channel

\* The callback of _scheduleNextTick
RepeatFire ==
    /\ repeatTimer = now
    /\ IF ~active \/ direction = 0
       THEN /\ repeatTimer' = NoTimer
            /\ chains' = chains - 1
            /\ out' = <<>>
            /\ ticked' = FALSE
            /\ UNCHANGED <<tickCount, burstTimers>>
       ELSE /\ out' = TickFrames(direction, GetPreset)
            /\ chains' = chains - 1 + 1
            /\ ticked' = TRUE
            /\ burstTimers' = burstTimers \o TickBurst(direction, GetPreset)
            /\ tickCount' = Capped(tickCount + 1)
            /\ repeatTimer' = TimeoutAt(ComputeInterval(GetPreset, trackHalf,
                                                        displacement, repeatStartTime))
    /\ UNCHANGED <<ScrollFrame, envVars, preset, macMode, presetChanges, centerY,
                   trackHalf, displacement, direction, active, repeatStartTime>>
    /\ Channel

\* A timeout of the macOS burst
BurstFire(i) ==
    /\ burstTimers[i].at = now
    /\ out' = <<WheelEv(0, burstTimers[i].dy)>>
    /\ ticked' = FALSE
    /\ burstTimers' = RemoveAt(burstTimers, i)
    /\ UNCHANGED <<ScrollFrame, envVars, preset, macMode, presetChanges, centerY,
                   trackHalf, displacement, direction, active, repeatTimer,
                   repeatStartTime, tickCount, chains>>
    /\ Channel

BurstFires == \E i \in DOMAIN burstTimers : BurstFire(i)

\* set preset(v), from the settings panel; an unknown name is ignored
SetPreset(v) ==
    /\ ~ScrollAnyDue
    /\ phase = 0
    /\ presetChanges < MaxPresetChanges
    /\ presetChanges' = presetChanges + 1
    /\ preset' = IF v \in PresetNames THEN v ELSE preset
    /\ out' = <<>>
    /\ ticked' = FALSE
    /\ UNCHANGED <<ScrollFrame, envVars, macMode, centerY, trackHalf, displacement,
                   direction, active, repeatTimer, repeatStartTime, tickCount,
                   burstTimers, chains>>
    /\ Channel

\* set macMode(v)
SetMacMode(v) ==
    /\ ~ScrollAnyDue
    /\ phase = 0
    /\ presetChanges < MaxPresetChanges
    /\ presetChanges' = presetChanges + 1
    /\ macMode' = v
    /\ out' = <<>>
    /\ ticked' = FALSE
    /\ UNCHANGED <<ScrollFrame, envVars, preset, centerY, trackHalf, displacement,
                   direction, active, repeatTimer, repeatStartTime, tickCount,
                   burstTimers, chains>>
    /\ Channel

ScrollDeadlines ==
    ({repeatTimer} \ {NoTimer}) \cup {burstTimers[i].at : i \in DOMAIN burstTimers}

ScrollElapse ==
    LET later == {d - now : d \in {e \in ScrollDeadlines : e > now}}
        grid == TimeStep - phase
    IN  IF \E d \in later : d < grid
        THEN CHOOSE d \in later : \A e \in later : d <= e
        ELSE grid

\* Time passes.  Due callbacks have run.
ScrollTick ==
    /\ ~ScrollAnyDue
    /\ LET dt == ScrollElapse
       IN  /\ phase' = (phase + dt) % TimeStep
           /\ sampled' = FALSE
           /\ repeatTimer' = Nearer(repeatTimer, dt)
           /\ repeatStartTime' = Aged(repeatStartTime, dt, RAMP_DURATION)
           /\ burstTimers' = [i \in DOMAIN burstTimers |->
                                [burstTimers[i] EXCEPT !.at = @ - dt]]
    /\ out' = <<>>
    /\ ticked' = FALSE
    /\ UNCHANGED <<ScrollFrame, touches, contacts, preset, macMode, presetChanges,
                   centerY, trackHalf, displacement, direction, active, tickCount,
                   chains>>
    /\ Channel

\* clientY of the finger, by its offset from the centre of the strip
ScrollOffsets == {-100, -20, 0, 10, 20, 30, 100}
ScrollYs == {WidgetTop + WidgetHeight \div 2 + d : d \in ScrollOffsets}

WidgetTouchStart ==
    /\ touches < 2
    /\ \E clientY \in ScrollYs : ScrollTouchStart(touches + 1, clientY)
WidgetTouchMove == \E clientY \in ScrollYs : ScrollTouchMove(clientY)
WidgetTouchEnd == \E n \in 0..1 : ScrollTouchEnd(n)
ChoosePreset == \E v \in PresetNames \cup {"custom"} : SetPreset(v)
ChooseMacMode == \E v \in BOOLEAN : SetMacMode(v)

NextScroll ==
    \/ WidgetTouchStart
    \/ WidgetTouchMove
    \/ WidgetTouchEnd
    \/ ChoosePreset
    \/ ChooseMacMode
    \/ RepeatFire
    \/ BurstFires
    \/ ScrollTick

SpecScroll == Init /\ [][NextScroll]_vars

\* C18: whenever |displacement| is below the dead zone of the active preset,
\* direction is 0 and no repeat timer is pending, and the step that led
\* there emitted no tick; through touch events, timer callbacks and preset
\* changes.
C18_DeadZoneIsQuiet ==
    Abs(displacement) < GetPreset.deadZone =>
        /\ direction = 0
        /\ repeatTimer = NoTimer
        /\ ~ticked

\* C19: a touch-start or touch-move that puts |displacement| at or above
\* the first-tick threshold arms the repeat timer (with one tick at once if
\* none was pending), so whenever a touch is active with |displacement| at
\* or above the threshold of the active preset a repeat timer is pending.
C19_BeyondFirstTickIsArmed ==
    (active /\ Abs(displacement) >= GetPreset.firstTick) => repeatTimer # NoTimer

\* C20: a repeat timer is pending only while |displacement| is at or above
\* the first-tick threshold of the preset, and no tick is emitted while it
\* is below that threshold, inside or outside the dead zone.
C20_RepeatOnlyBeyondFirstTick ==
    Abs(displacement) < GetPreset.firstTick =>
        /\ repeatTimer = NoTimer
        /\ ~ticked

\* C21: while no touch is active on the strip (from a touch-end or
\* touch-cancel to the next touch-start) displacement and direction are 0,
\* no repeat timer is pending and no wheel frame is handed to the sender,
\* with the macOS mode off or on.
C21_QuietAfterRelease ==
    ~active =>
        /\ displacement = 0
        /\ direction = 0
        /\ repeatTimer = NoTimer
        /\ CountWheel(out) = 0

\* The displacements the strip reports, and the hold times at which a
\* repeat timer is re-armed
ClampedOffsets == {Max(-trackHalf, Min(trackHalf, d)) : d \in ScrollOffsets}
HoldTimes == {50 * k : k \in 0..20}
\* _computeInterval() of the current preset and track at displacement d,
\* e ms after the repeat began
IntervalAt(d, e) == ComputeInterval(GetPreset, trackHalf, d, now - e)
IntervalLe(a, b) == ~FracLt(b[1], b[2], a[1], a[2])

\* C22: while a repeat timer is pending, the interval _computeInterval gives
\* for the current displacement and hold time is not below the one it gives
\* for any larger |displacement| outside the dead zone at the same hold
\* time, nor below the one for any longer hold time at the same
\* displacement; and it lies between preset.minInterval and 300 ms.
C22_IntervalMonotone ==
    repeatTimer # NoTimer =>
        LET e == now - repeatStartTime
            here == IntervalAt(displacement, e)
        IN  /\ \A d \in ClampedOffsets :
                  (Abs(d) >= GetPreset.deadZone /\ Abs(d) >= Abs(displacement))
                      => IntervalLe(IntervalAt(d, e), here)
            /\ \A h \in HoldTimes : h >= e => IntervalLe(IntervalAt(displacement, h), here)
            /\ IntervalLe(RInt(GetPreset.minInterval), here)
            /\ IntervalLe(here, RInt(MAX_INTERVAL))

\* The wheel frames of one tick with the settings of the state after it
TickDy == direction * GetPreset.units * (IF macMode THEN MAC_UNIT_MULTIPLIER ELSE 1)
SignOf(i) == IF i > 0 THEN 1 ELSE IF i < 0 THEN -1 ELSE 0

\* C23: a step that fires a tick hands exactly one wheel frame (0, dy) to the
\* sender, with dy = direction x preset.units (x 3 in macOS mode) and
\* direction = -1 or +1, the sign of the displacement; in macOS mode it
\* leaves exactly two timeouts, 10 and 20 ms later, and each of them sends
\* the same frame once; in normal mode it leaves none.  Every frame the
\* widget sends is such a wheel frame, and none has dy = 0.
C23_TickFrames ==
    [][/\ ticked' =>
             /\ direction' \in {-1, 1}
             /\ direction' = SignOf(displacement')
             /\ out' = <<WheelEv(0, TickDy')>>
             /\ burstTimers' = burstTimers \o
                   (IF macMode'
                    THEN <<[at |-> now + 10, dy |-> TickDy'],
                           [at |-> now + 20, dy |-> TickDy']>>
                    ELSE <<>>)
       /\ (~ticked' /\ out' # <<>>) =>
             \E i \in DOMAIN burstTimers :
                 /\ burstTimers[i].at = now
                 /\ out' = <<WheelEv(0, burstTimers[i].dy)>>
                 /\ burstTimers' = RemoveAt(burstTimers, i)
       /\ \A i \in DOMAIN out' :
             out'[i].t = "wheel" /\ out'[i].x = 0 /\ out'[i].y # 0
      ]_vars

\* A tick of the repeat timer in macOS mode, upwards, between two sampling
\* instants, with its two timeouts pending
C23_Witness ==
    /\ ticked
    /\ macMode
    /\ direction = -1
    /\ phase # 0
    /\ Len(burstTimers) = 2
    /\ out = <<WheelEv(0, -3 * GetPreset.units)>>

\* A touch-move turns the direction from +1 to -1 or from -1 to +1
Reverses == direction \in {-1, 1} /\ direction' = -direction

\* C24: a touch-move that reverses the direction cancels the pending repeat
\* timer and resets the tick counter in the handler: afterwards a timer is
\* pending only if the handler re-armed it, with its own first tick, the
\* counter counting that tick alone and the ramp starting at this instant.
\* Every tick has the direction of the state it leaves, so none has the old
\* direction; and whenever a repeat is armed its ramp starts at zero elapsed
\* time.
C24_ReversalRestarts ==
    [][/\ Reverses =>
             /\ tickCount' = (IF ticked' THEN 1 ELSE 0)
             /\ ticked' <=> Abs(displacement') >= GetPreset.firstTick
             /\ IF ticked'
                THEN /\ repeatStartTime' = now
                     /\ repeatTimer' = TimeoutAt(ComputeInterval(GetPreset, trackHalf,
                                                                displacement', now))
                ELSE repeatTimer' = NoTimer
       /\ ticked' => SignOf(out'[1].y) = direction'
       /\ (repeatTimer = NoTimer /\ repeatTimer' # NoTimer) => repeatStartTime' = now
      ]_vars

\* A reversal with a tick of the new direction (upwards), while a burst
\* timeout of a downward tick of the same instant is still pending
C24_Witness ==
    /\ active
    /\ ticked
    /\ direction = -1
    /\ \E i \in DOMAIN burstTimers : burstTimers[i].dy > 0


\* The relative-move frames of a frame sequence
RelFrames(seq) == SelectSeq(seq, LAMBDA e : e.t = "rel")
\* floor(d * sensitivity) limited to the signed range of one byte
ScaledDelta(d) ==
    LET v == RFloor(RMul(RInt(d), sensitivity))
    IN  Max(-127, Min(v, 127))

\* C27: every relative-move frame has dx and dy within [-127, 127] and not
\* both 0; a single-finger move in relative mode with an anchor sends the
\* clamped, floored, sensitivity-scaled delta from the anchor (nothing when
\* both components are 0) and leaves the anchor at the touch position.
C27_RelativeFrames ==
    [][/\ \A i \in DOMAIN out' :
            out'[i].t = "rel" => /\ out'[i].x \in -127..127
                                 /\ out'[i].y \in -127..127
                                 /\ out'[i].x # 0 \/ out'[i].y # 0
       /\ \A p \in Points :
            (/\ touches = 1 /\ mode = "relative" /\ relTouchStart # NoPos
             /\ EvTouchMove(p, p))
            => LET dx == ScaledDelta(p.x - relTouchStart.x)
                   dy == ScaledDelta(p.y - relTouchStart.y)
               IN  /\ relTouchStart' = p
                   /\ RelFrames(out') = IF dx = 0 /\ dy = 0 THEN <<>>
                                        ELSE <<RelEv(dx, dy)>>]_vars
\* A move of 16 px at sensitivity 10 was clamped to 127 and re-anchored
C27_Witness ==
    /\ mode = "relative" /\ touches = 1
    /\ sensitivity = <<10, 1>>
    /\ relTouchStart = Pt(122, 108)
    /\ RelFrames(out) = <<RelEv(127, 0)>>


\* The absolute-move frames of a frame sequence
AbsFrames(seq) == SelectSeq(seq, LAMBDA e : e.t = "abs")
\* clamp(round((pos - offset) * 65535 / ((size - 1) or 1)) - 32768)
AbsCoord(pos, offset, size) ==
    LET den == IF size - 1 = 0 THEN 1 ELSE size - 1
        v == RRound(<<(pos - offset) * 65535, den>>) - 32768
    IN  Max(-32768, Min(v, 32767))
\* The frame for container position p under the geometry g
AbsFrameFor(g, p) == AbsEv(AbsCoord(p.x, g.x, g.width), AbsCoord(p.y, g.y, g.height))
\* Positions probed for the shape of the mapping, on either axis
ProbeCoords == {-20, 0, 1, 99, 100, 101, 149, 150, 300, 399, 400, 449, 450,
                599, 600, 699, 700, 799, 820}
\* The example of a 400 px wide stream behind a 50 px bar
ExampleGeo == [x |-> 50, y |-> 0, width |-> 400, height |-> 300]

\* C28: every absolute-move frame has x and y within [-32768, 32767], each
\* the clamped, rounded linear map of the position inside the displayed
\* rectangle: the frame sent at touch-start is that of the touch position,
\* the frame sent later is that of the pending position; the first displayed
\* pixel maps to -32768, the last to 32767, positions in the letterbox clamp
\* to the nearer bound, and the map is non-decreasing in the position (the
\* shape of the map depends on the geometry alone: it is examined for each
\* geometry the stream takes before the first touch).
C28_AbsoluteFrames ==
    [][/\ \A i \in DOMAIN out' :
            out'[i].t = "abs" => /\ out'[i].x \in -32768..32767
                                 /\ out'[i].y \in -32768..32767
       /\ Flush => out' = <<AbsFrameFor(Geo, absPos)>>
       /\ \A p \in AbsPoints :
            (touches = 0 /\ EvTouchStart(1, p, p)) => AbsFrames(out') = <<AbsFrameFor(Geo, p)>>
       /\ AbsFrames(out') # <<>> =>
            \/ absPos # NoPos /\ AbsFrames(out') = <<AbsFrameFor(Geo, absPos)>>
            \/ \E p \in AbsPoints : AbsFrames(out') = <<AbsFrameFor(Geo, p)>>
       /\ (obs.kind = "none" /\ resolution' # resolution) => \A g \in {Geo'} :
              /\ AbsCoord(g.x, g.x, g.width) = -32768
              /\ AbsCoord(g.x + g.width - 1, g.x, g.width) = 32767
              /\ AbsCoord(g.y, g.y, g.height) = -32768
              /\ AbsCoord(g.y + g.height - 1, g.y, g.height) = 32767
              /\ \A a \in ProbeCoords :
                    /\ a < g.x => AbsCoord(a, g.x, g.width) = -32768
                    /\ a >= g.x + g.width => AbsCoord(a, g.x, g.width) = 32767
                    /\ a < g.y => AbsCoord(a, g.y, g.height) = -32768
                    /\ a >= g.y + g.height => AbsCoord(a, g.y, g.height) = 32767
                    /\ \A b \in ProbeCoords :
                          a <= b => /\ AbsCoord(a, g.x, g.width) <= AbsCoord(b, g.x, g.width)
                                    /\ AbsCoord(a, g.y, g.height) <= AbsCoord(b, g.y, g.height)
       /\ AbsFrameFor(ExampleGeo, Pt(100, 0)).x = Remap(50, 0, 399, AbsMin, AbsMax)]_vars
\* Under a 1:1 stream a touch on the last displayed pixel of the bottom row,
\* in the right-hand bar, sent the upper bound on both axes
C28_Witness ==
    /\ resolution = [realWidth |-> 600, realHeight |-> 600]
    /\ obs.kind # "none"
    /\ touches = 1
    /\ touchStartPos = Pt(799, 599)
    /\ AbsFrames(out) = <<AbsEv(32767, 32767)>>


\* Screen points probed for the conversion: the corners of the view, its
\* centre and two points off the centre
ProbePoints == {Pt(0, 0), Pt(100, 300), Pt(400, 300), Pt(537, 211), Pt(799, 599)}
\* The content coordinate shown at screen coordinate c under the transform
\* scale(s) translate(t / s) about the centre of a view of the given size
ContentUnder(c, view, s, t) ==
    RAdd(RDiv(RSub(RSub(RInt(c), <<view, 2>>), t), s), <<view, 2>>)
\* The content point shown at screen point p, to the nearest pixel
ContentPoint(p) ==
    Pt(RRound(ContentUnder(p.x, ViewW, scale, translateX)),
       RRound(ContentUnder(p.y, ViewH, scale, translateY)))
\* _screenToContainerPos returns the content point shown at p
ConvertsBack(p) ==
    ScreenToContainerPos(zoomed, scale, translateX, translateY, p) = ContentPoint(p)

\* C29: whenever no two-finger gesture is in progress, _screenToContainerPos
\* applied to a screen point returns the content point shown there, to the
\* nearest pixel; with scale 1 and translation (0, 0) it returns the screen
\* point itself (the surface's bounding box starts at the origin).
C29_ScreenToContent ==
    NoGesture =>
        /\ \A p \in ProbePoints : ConvertsBack(p)
        /\ (scale = R1 /\ translateX = R0 /\ translateY = R0) =>
              \A p \in ProbePoints :
                  ScreenToContainerPos(zoomed, scale, translateX, translateY, p) = p


\* C30: whenever no two-finger gesture is in progress, the onZoomChange
\* callback was last told the current value of zoomed (it starts untold,
\* with zoomed false); and a call of zoomToNative(), resetZoom() or toggle()
\* that changes zoomed has told the callback the new value when it returns,
\* gesture or no gesture.
C30_ZoomChangeReported ==
    [][/\ NoGesture => shownZoomed = zoomed
       /\ NoGesture' => shownZoomed' = zoomed'
       /\ ((CallZoomToNative \/ CallResetZoom \/ CallToggle) /\ zoomed' # zoomed)
              => shownZoomed' = zoomed']_vars
\* A pinch alone has zoomed the view, has ended, and has been reported
C30_Witness ==
    /\ zoomCalls = 0
    /\ touches = 0
    /\ NoGesture
    /\ zoomed
    /\ shownZoomed


\* The frames f of one button alternate, beginning with a down if the button
\* was up (h false) and with an up if it was down
Alternates(h, f) ==
    \A i \in DOMAIN f : f[i].s = (IF i = 1 THEN ~h ELSE ~f[i - 1].s)

\* C31: for each mouse button the button frames handed to the sender
\* alternate down, up, down, up, beginning with a down: no step sends a down
\* for a button that is down, or an up for a button that is up.
C31_ButtonsAlternate ==
    [][\A b \in {"left", "right"} : Alternates(held[b], ButtonFrames(out', b))]_vars


\* No timeout of MouseHandler is pending
NoTimerPending ==
    /\ singleTapTimer = NoTimer
    /\ longPressTimer = NoTimer
    /\ dragHoldTimer = NoTimer
    /\ pulseTimers = <<>>

\* C32: whenever no finger is in contact with the stream surface and no
\* MouseHandler timer is pending, no mouse button is down.
C32_NoButtonLeftDown ==
    (touches = 0 /\ NoTimerPending) => (~held.left /\ ~held.right)

AllButtonFrames(seq) == SelectSeq(seq, LAMBDA e : e.t = "button")

\* C33: while a drag is active, between its left-button-down and its
\* left-button-up, the gesture recognizer hands no other mouse-button frame
\* to the socket: a step taken during the drag sends no button frame at all,
\* except the step that ends the drag, which sends the left-button-up alone.
C33_DragExclusive ==
    [][isDragging =>
          \A f \in {AllButtonFrames(out')} :
              IF isDragging' THEN f = <<>>
              ELSE f \in {<<>>, <<BtnEv("left", FALSE)>>}]_vars

\* A single-finger touchmove to p is handled
MovesTo(p) == touches = 1 /\ TouchMoveEvent(p, p)

WheelFrames(seq) == SelectSeq(seq, LAMBDA e : e.t = "wheel")
\* The wheel component for a displacement d of the midpoint on one axis
WheelComponent(d, s) == IF d > 5 THEN s ELSE IF d < -5 THEN -s ELSE 0

\* C35: a two-finger touch-move that MouseHandler handles, with the midpoint
\* at m and the anchor at a, sends one wheel frame when m is more than 5 px
\* from a on either axis and none otherwise; each component of the frame is
\* +s, -s or 0 (s the scroll sensitivity): +s for a displacement above 5 px,
\* -s below -5 px, 0 within 5 px; the anchor becomes m when a frame is sent
\* and stays otherwise.  Every wheel frame sent has its components in
\* {-s, 0, +s}, not both 0.
C35_ScrollWheel ==
    [][/\ \A i \in DOMAIN out' :
            out'[i].t = "wheel" =>
                /\ out'[i].x \in {-scrollSensitivity, 0, scrollSensitivity}
                /\ out'[i].y \in {-scrollSensitivity, 0, scrollSensitivity}
                /\ out'[i].x # 0 \/ out'[i].y # 0
       /\ \A m \in WheelMids :
            (/\ touches = 2
             /\ EvTouchMove(Fingers(40, m)[1], Fingers(40, m)[2])
             /\ enabled /\ ~isPanning' /\ ~isPinching'
             /\ scrollAnchor # NoPos) =>
                LET dx == m.x - scrollAnchor.x
                    dy == m.y - scrollAnchor.y
                IN  IF Abs(dx) > 5 \/ Abs(dy) > 5
                    THEN /\ WheelFrames(out') =
                              <<WheelEv(WheelComponent(dx, scrollSensitivity),
                                        WheelComponent(dy, scrollSensitivity))>>
                         /\ scrollAnchor' = m
                    ELSE /\ WheelFrames(out') = <<>>
                         /\ scrollAnchor' = scrollAnchor]_vars
\* With the sensitivity at 3 the midpoint went 6 px left and 6 px down of the
\* anchor: the frame is (-3, +3) and the anchor is the new midpoint
C35_Witness ==
    /\ touches = 2
    /\ scrollSensitivity = 3
    /\ out = <<WheelEv(-3, 3)>>
    /\ scrollAnchor = Pt(100, 106)

\* C37: a touch-end that leaves fewer than two fingers in contact leaves
\* ZoomController with isPanningOrPinching false and with none of its
\* classification flags set; with fewer than two fingers down they stay so,
\* and a single finger landing while MouseHandler is enabled is processed by
\* MouseHandler (it records its touch-start).
C37_GestureCleared ==
    [][/\ (touches' < touches /\ touches' < 2) =>
             /\ ~(isPanning' \/ isPinching')
             /\ ~gestureUndecided' /\ ~isPinching' /\ ~isScroll' /\ ~isPanning'
       /\ touches' < 2 => ~(isPanning' \/ isPinching')
       /\ (touches = 0 /\ touches' = 1 /\ enabled) =>
             (touchStartTime' = now /\ touchStartPos' # NoPos)]_vars
\* A pinch zoomed the view and ended; the single finger that landed afterwards
\* has just been processed by MouseHandler
C37_Witness ==
    /\ zoomed
    /\ touches = 1
    /\ obs.single
    /\ touchStartTime = now
    /\ ~isPinching /\ ~gestureUndecided

\* C38: at most one timeout of the ScrollWidget's auto-repeat is pending at
\* any time, and it is the one this._repeatTimer holds: none is pending
\* when the field is null.
C38_OneRepeatTimer ==
    /\ chains \in {0, 1}
    /\ chains = Cleared(repeatTimer)
\* The auto-repeat was stopped by a reversal and started again in the other
\* direction by the same touch-move, and has ticked since: one timeout pending
C38_Witness ==
    /\ active
    /\ direction = -1
    /\ tickCount >= 2
    /\ repeatTimer # NoTimer
    /\ chains = 1

\* The relative-move frames with both components negated
Negated(seq) == [i \in DOMAIN seq |-> RelEv(-seq[i].x, -seq[i].y)]
\* The point opposite p about the anchor a
Mirrored(a, p) == Pt(2 * a.x - p.x, 2 * a.y - p.y)

\* C39: what a single-finger move in relative mode emits is odd-symmetric in
\* the displacement from the anchor: the move to the opposite point about the
\* anchor would emit the negated frame, and nothing exactly when this move
\* emits nothing.
C39_OddSymmetric ==
    [][\A p \in Points :
          (/\ touches = 1 /\ mode = "relative" /\ relTouchStart # NoPos
           /\ EvTouchMove(p, p))
          => RelOut(relTouchStart, Mirrored(relTouchStart, p))
                = Negated(RelFrames(out'))]_vars

\* Sockets that are connecting or open: the one this._ws refers to, if it is,
\* and those let go of
LiveSockets ==
    socket.orphans + (IF socket.sock \in {"connecting", "open"} THEN 1 ELSE 0)

\* C40: while KvmdWebSocket is stopped (from disconnect() until connect()) no
\* step creates a socket and no ping interval or reconnect timeout is
\* pending; and at any time at most one socket is connecting or open, at
\* most one ping interval and at most one reconnect timeout is pending.
C40_SocketLifecycle ==
    /\ socket.stopped =>
          (~socket.made /\ socket.pings = 0 /\ socket.reconnects = 0)
    /\ LiveSockets <= 1
    /\ socket.pings <= 1
    /\ socket.reconnects <= 1

=============================================================================
